---- MODULE Spec2Model ----
(***************************************************************************)
(* Model of the iam plugin.  Two generations of the plugin are in the      *)
(* repository and both are modelled here:                                  *)
(*                                                                         *)
(*  - src/index.ts: the alias registry, the in-memory inboxes, the         *)
(*    announce and broadcast tools, the task completion hook and the       *)
(*    message injector;                                                    *)
(*  - src/unnamed/part_002 (lib/inbox) with the hooks of                   *)
(*    src/unnamed/part_004: the thread tracker, the pending thread         *)
(*    updates with their injector, and the sibling registry.               *)
(*                                                                         *)
(* Message.timestamp (Date.now()) is recorded by index.ts but never read   *)
(* by any decision; it is left out of the Message record.  Message.id is   *)
(* a random token in the code; here it is the creation number of the       *)
(* message, which also records the send order.                             *)
(*                                                                         *)
(* The two generations share no state: an action of one leaves the         *)
(* variables of the other unchanged.  The content of the files behind the  *)
(* threads is not part of the state: a hook sees the metadata of the file  *)
(* as the agent wrote it, which is an input of the hook.                   *)
(***************************************************************************)
EXTENDS Integers, Sequences, FiniteSets, TLC

VARIABLES
  inboxes,            \* Map<sessionId, Message[]>
  activeSessions,     \* Set<sessionId>, kept in insertion order
  sessionToAlias,     \* Map<sessionId, alias>
  aliasToSession,     \* Map<alias, sessionId>
  agentDescriptions,  \* Map<alias, description>
  nextAgentIndex,     \* alias counter
  sessionParentCache, \* Map<sessionId, parentId | null>
  calls,              \* per session: the frame of its suspended broadcast call
  transcript,         \* per session: the injector's runs that pushed to
                      \* output.messages, each with the messages it pushed
  msgCount            \* number of messages created so far

\* State of src/unnamed/part_002.
VARIABLES
  threads,            \* Map<threadId, Thread>, kept in insertion order
  pendingUpdates,     \* Map<sessionId, ThreadUpdate[]>
  sessionThreads,     \* Map<sessionId, Set<threadId>>
  siblingRegistry,    \* Map<parentId, Set<sessionId>>
  sessionParents,     \* Map<sessionId, parentId>
  writes,             \* createOrUpdateThread calls suspended at fs.writeFile
  systemRun,          \* last run of the system prompt hook: input.sessionID, output.system
  clock               \* the last value Date.now() returned

mailVars == <<inboxes, activeSessions, sessionToAlias, aliasToSession,
              agentDescriptions, nextAgentIndex, sessionParentCache, calls,
              transcript, msgCount>>

trackerVars == <<threads, pendingUpdates, sessionThreads, writes, clock>>

siblingVars == <<siblingRegistry, sessionParents>>

threadVars == <<trackerVars, siblingVars>>

promptVars == <<systemRun>>

vars == <<mailVars, threadVars, promptVars>>

\* ------------------------------------------------------------------ bounds
MaxSuspended == 1   \* broadcast calls suspended at an await at one time
MaxRacing == 2      \* the same in SpecRace
MaxMsgs == 2        \* messages created in one behaviour of Spec
MaxIds == 29        \* session ids registered in SpecReg
FreeOrder == 3      \* SpecReg: the first FreeOrder ids register in any order
MaxThreads == 2     \* threads tracked in one behaviour of SpecThreads
MaxClock == 3       \* calls of Date.now() in one behaviour of SpecThreads
MaxHookClock == 4   \* calls of Date.now() in one behaviour of SpecHooks
MaxInjectClock == 2 \* calls of Date.now() in one behaviour of SpecInject
MaxMetaClock == 4   \* calls of Date.now() in one behaviour of SpecMeta
MaxWriting == 1     \* createOrUpdateThread calls suspended at one time

\* ------------------------------------------------------------- identities
Null == "null"

SessId(i) == "ses" \o ToString(i)

Sessions == {"ses1", "ses2", "ses3"}

\* The host's session tree: the first session is the root, the others are
\* its children (response.data.parentID of client.session.get).
HostParent(s) == IF s = "ses1" THEN Null ELSE "ses1"

Letters == <<"A", "B", "C", "D", "E", "F", "G", "H", "I", "J", "K", "L", "M",
             "N", "O", "P", "Q", "R", "S", "T", "U", "V", "W", "X", "Y", "Z">>

\* Mutant: the letters wrap around without a suffix.
AliasAt_noSuffix(idx) == "agent" \o Letters[(idx % 26) + 1]

\* Mutant: the suffix starts one registration late.
AliasAt_lateSuffix(idx) ==
  "agent" \o Letters[(idx % 26) + 1]
          \o (IF idx > 26 THEN ToString(idx \div 26) ELSE "")

\* The alias getNextAlias returns when nextAgentIndex = idx.
AliasAt(idx) ==
  "agent" \o Letters[(idx % 26) + 1]
          \o (IF idx >= 26 THEN ToString(idx \div 26) ELSE "")

\* Map.get(...) || fallback helpers
Has(m, k) == k \in DOMAIN m
Put(m, k, v) == [x \in DOMAIN m \cup {k} |-> IF x = k THEN v ELSE m[x]]

SeqHas(q, x) == \E i \in 1..Len(q) : q[i] = x

getAlias(s2a, sessionId) ==
  IF Has(s2a, sessionId) THEN s2a[sessionId] ELSE sessionId

getDescription(descs, alias) ==
  IF Has(descs, alias) THEN descs[alias] ELSE "undefined"

\* Mutant: registerSession without the activeSessions.has check.
registerSession_always(sessionId) ==
  [active  |-> Append(activeSessions, sessionId),
   s2a     |-> Put(sessionToAlias, sessionId, AliasAt(nextAgentIndex)),
   a2s     |-> Put(aliasToSession, AliasAt(nextAgentIndex), sessionId),
   next    |-> nextAgentIndex + 1]

\* ---------------------------------------------------------- registration
\* registerSession(sessionId): the new values of the four registry
\* variables, as one record.
registerSession(sessionId) ==
  IF ~SeqHas(activeSessions, sessionId)
  THEN [active  |-> Append(activeSessions, sessionId),
        s2a     |-> Put(sessionToAlias, sessionId, AliasAt(nextAgentIndex)),
        a2s     |-> Put(aliasToSession, AliasAt(nextAgentIndex), sessionId),
        next    |-> nextAgentIndex + 1]
  ELSE [active  |-> activeSessions,
        s2a     |-> sessionToAlias,
        a2s     |-> aliasToSession,
        next    |-> nextAgentIndex]

ApplyRegister(r) ==
  /\ activeSessions' = r.active
  /\ sessionToAlias' = r.s2a
  /\ aliasToSession' = r.a2s
  /\ nextAgentIndex' = r.next

\* Mutant: the caller is not left out.
getKnownAgents_withSelf(active, s2a, sessionId) ==
  [i \in 1..Len(active) |-> getAlias(s2a, active[i])]

\* Mutant: the aliases are collected in reverse order.
RECURSIVE getKnownAgents_reversed(_, _, _)
getKnownAgents_reversed(active, s2a, sessionId) ==
  IF active = <<>> THEN <<>>
  ELSE IF Head(active) # sessionId
       THEN getKnownAgents_reversed(Tail(active), s2a, sessionId)
              \o <<getAlias(s2a, Head(active))>>
       ELSE getKnownAgents_reversed(Tail(active), s2a, sessionId)

\* Aliases of all active sessions except sessionId, in insertion order.
RECURSIVE getKnownAgents(_, _, _)
getKnownAgents(active, s2a, sessionId) ==
  IF active = <<>> THEN <<>>
  ELSE IF Head(active) # sessionId
       THEN <<getAlias(s2a, Head(active))>>
              \o getKnownAgents(Tail(active), s2a, sessionId)
       ELSE getKnownAgents(Tail(active), s2a, sessionId)

getParallelAgents(active, s2a, descs, sessionId) ==
  LET known == getKnownAgents(active, s2a, sessionId) IN
  [i \in 1..Len(known) |->
     [alias |-> known[i], description |-> getDescription(descs, known[i])]]

\* ------------------------------------------------------------- messaging
\* getInbox creates the empty queue of a session on first use; a missing
\* entry and an empty queue read the same, so every session starts with the
\* empty queue.
getInbox(boxes, sessionId) == boxes[sessionId]

\* Mutant: the message is put at the front of the queue.
sendMessage_unshift(boxes, id, from, to, body) ==
  Put(boxes, to,
      <<[id |-> id, from |-> from, to |-> to, body |-> body, read |-> FALSE]>>
        \o getInbox(boxes, to))

\* Mutant: the queue is made anew for the message.
sendMessage_freshQueue(boxes, id, from, to, body) ==
  Put(boxes, to,
      <<[id |-> id, from |-> from, to |-> to, body |-> body, read |-> FALSE]>>)

\* sendMessage(from, to, body); id is the creation number of the message.
sendMessage(boxes, id, from, to, body) ==
  Put(boxes, to,
      Append(getInbox(boxes, to),
             [id |-> id, from |-> from, to |-> to, body |-> body,
              read |-> FALSE]))

IsUnread(m) == ~m.read

getUnreadMessages(sessionId) == SelectSeq(getInbox(inboxes, sessionId), IsUnread)

\* Mutant: the id of an active session is not accepted.
resolveAlias_aliasOnly(aliasOrSessionId, parentId) ==
  IF aliasOrSessionId = "parent" /\ parentId # Null
  THEN parentId
  ELSE IF Has(aliasToSession, aliasOrSessionId)
       THEN aliasToSession[aliasOrSessionId]
       ELSE "undefined"

resolveAlias(aliasOrSessionId, parentId) ==
  IF aliasOrSessionId = "parent" /\ parentId # Null
  THEN parentId
  ELSE IF Has(aliasToSession, aliasOrSessionId)
       THEN aliasToSession[aliasOrSessionId]
       ELSE IF SeqHas(activeSessions, aliasOrSessionId)
            THEN aliasOrSessionId
            ELSE "undefined"

\* ------------------------------------------------- the `to` argument
\* args.to is a string; it is modelled as the sequence of its pieces:
\* "," (separator), " " (white space) and words.
Concat(q) == IF q = <<>> THEN "" ELSE
  LET RECURSIVE cat(_)
      cat(x) == IF x = <<>> THEN "" ELSE Head(x) \o cat(Tail(x))
  IN cat(q)

\* String.prototype.toLowerCase on the words of the model.
toLowerCase(w) == IF w \in {"ALL", "All"} THEN "all" ELSE w

\* args.to.split(",")
RECURSIVE split(_, _)
split(q, cur) ==
  IF q = <<>> THEN <<cur>>
  ELSE IF Head(q) = "," THEN <<cur>> \o split(Tail(q), <<>>)
       ELSE split(Tail(q), Append(cur, Head(q)))

\* s.trim()
RECURSIVE trimLeft(_)
trimLeft(q) == IF q # <<>> /\ Head(q) = " " THEN trimLeft(Tail(q)) ELSE q

RECURSIVE trimRight(_)
trimRight(q) ==
  IF q # <<>> /\ q[Len(q)] = " " THEN trimRight(SubSeq(q, 1, Len(q) - 1)) ELSE q

trim(q) == trimRight(trimLeft(q))

NonEmptyString(w) == w # ""

\* args.to.split(",").map(s => s.trim()).filter(Boolean)
parseTargets(to) ==
  LET parts == split(to, <<>>) IN
  SelectSeq([i \in 1..Len(parts) |-> Concat(trim(parts[i]))], NonEmptyString)

\* !args.to || args.to.toLowerCase() === "all"
isAll(to) ==
  \/ to = <<>>
  \/ /\ Len(to) = 1
     /\ toLowerCase(to[1]) = "all"

Init ==
  /\ inboxes = [s \in Sessions |-> <<>>]
  /\ activeSessions = <<>>
  /\ sessionToAlias = <<>>
  /\ aliasToSession = <<>>
  /\ agentDescriptions = <<>>
  /\ nextAgentIndex = 0
  /\ sessionParentCache = <<>>
  /\ calls = <<>>
  /\ transcript = [s \in Sessions |-> <<>>]
  /\ msgCount = 0
  /\ systemRun = [sessionID |-> Null, system |-> <<>>]
  /\ threads = <<>>
  /\ pendingUpdates = <<>>
  /\ sessionThreads = <<>>
  /\ siblingRegistry = <<>>
  /\ sessionParents = <<>>
  /\ writes = {}
  /\ clock = 0

Remove(m, k) == [x \in DOMAIN m \ {k} |-> m[x]]

\* A session runs one tool call at a time.
Idle(s) == ~Has(calls, s)

\* "tool.execute.after" for the task tool with metadata.sessionId set.
TaskCompleted(newSessionId) ==
  /\ ApplyRegister(registerSession(newSessionId))
  /\ UNCHANGED <<threadVars, promptVars, inboxes, agentDescriptions, sessionParentCache, calls,
                 transcript, msgCount>>

\* announce.execute with the mutation "the description is stored under the
\* session id".
announce_bySessionId(s, message) ==
  LET r == registerSession(s)
      alias == getAlias(r.s2a, s)
      descs == Put(agentDescriptions, s, message)
  IN IF message = ""
     THEN [kind |-> "missingMessage", descs |-> agentDescriptions]
     ELSE [kind |-> "announced", descs |-> descs, alias |-> alias,
           agents |-> getParallelAgents(r.active, r.s2a, descs, s)]

\* What announce.execute returns to its caller and the descriptions it
\* leaves; message = "" stands for a missing message.
announce(s, message) ==
  LET r == registerSession(s)
      alias == getAlias(r.s2a, s)
      descs == Put(agentDescriptions, alias, message)
  IN IF message = ""
     THEN [kind |-> "missingMessage", descs |-> agentDescriptions]
     ELSE [kind |-> "announced", descs |-> descs, alias |-> alias,
           agents |-> getParallelAgents(r.active, r.s2a, descs, s)]

Announce(s, message) ==
  /\ Idle(s)
  /\ ApplyRegister(registerSession(s))
  /\ agentDescriptions' = announce(s, message).descs
  /\ UNCHANGED <<threadVars, promptVars, inboxes, sessionParentCache, calls, transcript, msgCount>>

\* Messages the suspended broadcasts may still create.
RECURSIVE Reserved(_)
Reserved(S) ==
  IF S = {} THEN 0
  ELSE LET s == CHOOSE x \in S : TRUE IN
       (IF calls[s].pc = "getParentId" THEN Len(calls[s].targetAliases) ELSE 0)
         + Reserved(S \ {s})

\* broadcast.execute up to `await getParentId(client, sessionId)`: either
\* an early return or the locals the suspended call keeps.
broadcastStart(s, to, message) ==
  LET r == registerSession(s)
      alias == getAlias(r.s2a, s)
      knownAgents == getKnownAgents(r.active, r.s2a, s)
      targetAliases == IF isAll(to) THEN knownAgents ELSE parseTargets(to)
  IN IF message = "" THEN [kind |-> "missingMessage"]
     ELSE IF Len(targetAliases) = 0 THEN [kind |-> "noAgents"]
     ELSE [kind |-> "await", pc |-> "getParentId", alias |-> alias,
           message |-> message, knownAgents |-> knownAgents,
           targetAliases |-> targetAliases]

\* The call of broadcast.execute to its first await or to its early
\* return, with at most maxSuspended calls suspended at one time.
BroadcastStartWithin(s, to, message, maxSuspended) ==
  /\ Idle(s)
  /\ ApplyRegister(registerSession(s))
  /\ LET out == broadcastStart(s, to, message) IN
     IF out.kind = "await"
     THEN /\ Cardinality(DOMAIN calls) < maxSuspended
          /\ msgCount + Reserved(DOMAIN calls) + Len(out.targetAliases) <= MaxMsgs
          /\ calls' = Put(calls, s, out)
     ELSE UNCHANGED calls
  /\ UNCHANGED <<threadVars, promptVars, inboxes, agentDescriptions, sessionParentCache, transcript,
                 msgCount>>

BroadcastStart(s, to, message) ==
  BroadcastStartWithin(s, to, message, MaxSuspended)

\* Mutant: the caller itself is not skipped.
RECURSIVE resolveTargets_noSkip(_, _, _, _)
resolveTargets_noSkip(targetAliases, parentId, sessionId, acc) ==
  IF targetAliases = <<>> THEN [unknown |-> "", recipientSessions |-> acc]
  ELSE LET recipientSessionId == resolveAlias(Head(targetAliases), parentId) IN
       IF recipientSessionId = "undefined"
       THEN [unknown |-> Head(targetAliases), recipientSessions |-> acc]
       ELSE resolveTargets_noSkip(Tail(targetAliases), parentId, sessionId,
                                  Append(acc, recipientSessionId))

\* The resolve loop of broadcast.execute: the first unknown target, or the
\* recipients with the caller itself skipped.
RECURSIVE resolveTargets(_, _, _, _)
resolveTargets(targetAliases, parentId, sessionId, acc) ==
  IF targetAliases = <<>> THEN [unknown |-> "", recipientSessions |-> acc]
  ELSE LET recipientSessionId == resolveAlias(Head(targetAliases), parentId) IN
       IF recipientSessionId = "undefined"
       THEN [unknown |-> Head(targetAliases), recipientSessions |-> acc]
       ELSE IF recipientSessionId = sessionId
       THEN resolveTargets(Tail(targetAliases), parentId, sessionId, acc)
       ELSE resolveTargets(Tail(targetAliases), parentId, sessionId,
                           Append(acc, recipientSessionId))

\* Mutant: the send loop stops after the first recipient.
sendAll_firstOnly(boxes, count, alias, recipientSessions, body) ==
  IF recipientSessions = <<>> THEN boxes
  ELSE sendMessage(boxes, count + 1, alias, Head(recipientSessions), body)

\* The send loop of broadcast.execute.
RECURSIVE sendAll(_, _, _, _, _)
sendAll(boxes, count, alias, recipientSessions, body) ==
  IF recipientSessions = <<>> THEN boxes
  ELSE sendAll(sendMessage(boxes, count + 1, alias, Head(recipientSessions), body),
               count + 1, alias, Tail(recipientSessions), body)

\* getParentId with the mutation "the cache is not read".
getParentId_noCache(s, found) ==
  IF found = "throw" THEN Null ELSE found

\* getParentId(client, sessionId) given the host's answer found to
\* client.session.get: the parent id, Null when the session has none,
\* "throw" when the request fails.  The cached value wins.
getParentId(s, found) ==
  IF Has(sessionParentCache, s) THEN sessionParentCache[s]
  ELSE IF found = "throw" THEN Null ELSE found

\* broadcast.execute with the mutation "a broadcast to all collects its
\* targets after the parent lookup".
broadcast_lateTargets(s, parentId) ==
  LET c == calls[s]
      targetAliases == IF c.targetAliases = c.knownAgents
                       THEN getKnownAgents(activeSessions, sessionToAlias, s)
                       ELSE c.targetAliases
      res == resolveTargets(targetAliases, parentId, s, <<>>)
  IN IF res.unknown # ""
     THEN [kind |-> "unknownRecipient", to |-> res.unknown,
           known |-> c.knownAgents, recipientSessions |-> <<>>]
     ELSE IF Len(res.recipientSessions) = 0
     THEN [kind |-> "noValidRecipients", recipientSessions |-> <<>>]
     ELSE [kind |-> "sent", recipients |-> targetAliases,
           messageId |-> msgCount + Len(res.recipientSessions),
           recipientSessions |-> res.recipientSessions,
           isTargetingParent |->
             parentId # Null /\ SeqHas(res.recipientSessions, parentId)]

\* broadcast.execute with the mutation "the targets resolved before the
\* unknown one are sent to".
broadcast_partialSend(s, parentId) ==
  LET c == calls[s]
      res == resolveTargets(c.targetAliases, parentId, s, <<>>)
  IN IF res.unknown # ""
     THEN [kind |-> "unknownRecipient", to |-> res.unknown,
           known |-> c.knownAgents, recipientSessions |-> res.recipientSessions]
     ELSE IF Len(res.recipientSessions) = 0
     THEN [kind |-> "noValidRecipients", recipientSessions |-> <<>>]
     ELSE [kind |-> "sent", recipients |-> c.targetAliases,
           messageId |-> msgCount + Len(res.recipientSessions),
           recipientSessions |-> res.recipientSessions,
           isTargetingParent |->
             parentId # Null /\ SeqHas(res.recipientSessions, parentId)]

\* broadcast.execute with the mutation "the error lists the agents known
\* when it is produced".
broadcast_currentKnown(s, parentId) ==
  LET c == calls[s]
      res == resolveTargets(c.targetAliases, parentId, s, <<>>)
  IN IF res.unknown # ""
     THEN [kind |-> "unknownRecipient", to |-> res.unknown,
           known |-> getKnownAgents(activeSessions, sessionToAlias, s),
           recipientSessions |-> <<>>]
     ELSE IF Len(res.recipientSessions) = 0
     THEN [kind |-> "noValidRecipients", recipientSessions |-> <<>>]
     ELSE [kind |-> "sent", recipients |-> c.targetAliases,
           messageId |-> msgCount + Len(res.recipientSessions),
           recipientSessions |-> res.recipientSessions,
           isTargetingParent |->
             parentId # Null /\ SeqHas(res.recipientSessions, parentId)]

\* broadcast.execute from the completion of getParentId on: what the call
\* returns, with the recipients it sends to.
broadcast(s, parentId) ==
  LET c == calls[s]
      res == resolveTargets(c.targetAliases, parentId, s, <<>>)
  IN IF res.unknown # ""
     THEN [kind |-> "unknownRecipient", to |-> res.unknown,
           known |-> c.knownAgents, recipientSessions |-> <<>>]
     ELSE IF Len(res.recipientSessions) = 0
     THEN [kind |-> "noValidRecipients", recipientSessions |-> <<>>]
     ELSE [kind |-> "sent", recipients |-> c.targetAliases,
           messageId |-> msgCount + Len(res.recipientSessions),
           recipientSessions |-> res.recipientSessions,
           isTargetingParent |->
             parentId # Null /\ SeqHas(res.recipientSessions, parentId)]

\* BroadcastResume with the mutation "a broadcast to the parent sends only
\* when the parent can be notified".
BroadcastResume_needsPost(s, found, hasPost) ==
  /\ Has(calls, s)
  /\ calls[s].pc = "getParentId"
  /\ LET parentId == getParentId(s, found)
         res == broadcast(s, parentId)
         out == IF res.kind = "sent" /\ res.isTargetingParent /\ ~hasPost
                THEN [kind |-> "notifyFailed", recipientSessions |-> <<>>]
                ELSE res
     IN /\ sessionParentCache' = Put(sessionParentCache, s, parentId)
        /\ inboxes' = sendAll(inboxes, msgCount, calls[s].alias,
                              out.recipientSessions, calls[s].message)
        /\ msgCount' = msgCount + Len(out.recipientSessions)
        /\ IF out.kind = "sent" /\ out.isTargetingParent /\ hasPost
           THEN calls' = Put(calls, s, [pc |-> "notify_once",
                                        recipients |-> out.recipients,
                                        messageId |-> out.messageId])
           ELSE calls' = Remove(calls, s)
  /\ UNCHANGED <<threadVars, promptVars, activeSessions, sessionToAlias, aliasToSession,
                 agentDescriptions, nextAgentIndex, transcript>>

\* broadcast.execute from the completion of getParentId to the next await
\* (the notify_once post) or to its return.  hasPost says whether
\* client._client.post exists.
BroadcastResume(s, found, hasPost) ==
  /\ Has(calls, s)
  /\ calls[s].pc = "getParentId"
  /\ LET parentId == getParentId(s, found)
         out == broadcast(s, parentId)
     IN /\ sessionParentCache' = Put(sessionParentCache, s, parentId)
        /\ inboxes' = sendAll(inboxes, msgCount, calls[s].alias,
                              out.recipientSessions, calls[s].message)
        /\ msgCount' = msgCount + Len(out.recipientSessions)
        /\ IF out.kind = "sent" /\ out.isTargetingParent /\ hasPost
           THEN calls' = Put(calls, s, [pc |-> "notify_once",
                                        recipients |-> out.recipients,
                                        messageId |-> out.messageId])
           ELSE calls' = Remove(calls, s)
  /\ UNCHANGED <<threadVars, promptVars, activeSessions, sessionToAlias, aliasToSession,
                 agentDescriptions, nextAgentIndex, transcript>>

\* The notify_once post settles (it resolved or it threw; the catch only
\* logs) and broadcast.execute returns broadcastResult.
BroadcastNotified(s) ==
  /\ Has(calls, s)
  /\ calls[s].pc = "notify_once"
  /\ calls' = Remove(calls, s)
  /\ UNCHANGED <<threadVars, promptVars, inboxes, activeSessions, sessionToAlias, aliasToSession,
                 agentDescriptions, nextAgentIndex, sessionParentCache,
                 transcript, msgCount>>

MarkRead(m) == [m EXCEPT !.read = TRUE]

\* What createAssistantMessageWithToolPart builds for one unread message.
AssistantMessage(sessionId, m) ==
  [sessionID |-> sessionId, from |-> m.from, body |-> m.body, messageId |-> m.id]

\* Mutant: the surfaced messages are taken out of the queue.
Injector_dequeue(s) ==
  LET unread == getUnreadMessages(s)
  IN /\ inboxes' = Put(inboxes, s, SelectSeq(inboxes[s], LAMBDA m : m.read))
     /\ transcript' =
          IF Len(unread) = 0 THEN transcript
          ELSE Put(transcript, s,
                   Append(transcript[s],
                          [i \in 1..Len(unread) |-> AssistantMessage(s, unread[i])]))
     /\ UNCHANGED <<threadVars, promptVars, activeSessions, sessionToAlias, aliasToSession,
                    agentDescriptions, nextAgentIndex, sessionParentCache,
                    calls, msgCount>>

\* Mutant: the hook pushes its batch of messages even when it is empty.
Injector_alwaysPush(s) ==
  LET inbox == getInbox(inboxes, s)
      unread == getUnreadMessages(s)
  IN /\ inboxes' = Put(inboxes, s,
                       [i \in 1..Len(inbox) |->
                          IF ~inbox[i].read THEN MarkRead(inbox[i]) ELSE inbox[i]])
     /\ transcript' =
          Put(transcript, s,
              Append(transcript[s],
                     [i \in 1..Len(unread) |-> AssistantMessage(s, unread[i])]))
     /\ UNCHANGED <<threadVars, promptVars, activeSessions, sessionToAlias, aliasToSession,
                    agentDescriptions, nextAgentIndex, sessionParentCache,
                    calls, msgCount>>

\* Mutant: only the first surfaced message is marked read.
Injector_firstOnly(s) ==
  LET inbox == getInbox(inboxes, s)
      unread == getUnreadMessages(s)
  IN /\ inboxes' = Put(inboxes, s,
                       [i \in 1..Len(inbox) |->
                          IF Len(unread) > 0 /\ inbox[i].id = unread[1].id
                          THEN MarkRead(inbox[i]) ELSE inbox[i]])
     /\ transcript' =
          IF Len(unread) = 0 THEN transcript
          ELSE Put(transcript, s,
                   Append(transcript[s],
                          [i \in 1..Len(unread) |-> AssistantMessage(s, unread[i])]))
     /\ UNCHANGED <<threadVars, promptVars, activeSessions, sessionToAlias, aliasToSession,
                    agentDescriptions, nextAgentIndex, sessionParentCache,
                    calls, msgCount>>

\* Mutant: the run marks the messages of every queue read.
Injector_markEveryone(s) ==
  LET unread == getUnreadMessages(s)
  IN /\ inboxes' = [r \in DOMAIN inboxes |->
                      [i \in 1..Len(inboxes[r]) |-> MarkRead(inboxes[r][i])]]
     /\ transcript' =
          IF Len(unread) = 0 THEN transcript
          ELSE Put(transcript, s,
                   Append(transcript[s],
                          [i \in 1..Len(unread) |-> AssistantMessage(s, unread[i])]))
     /\ UNCHANGED <<threadVars, promptVars, activeSessions, sessionToAlias, aliasToSession,
                    agentDescriptions, nextAgentIndex, sessionParentCache,
                    calls, msgCount>>

\* Mutant: the hook waits until two messages are unread.
Injector_batched(s) ==
  LET inbox == getInbox(inboxes, s)
      unread == getUnreadMessages(s)
  IN IF Len(unread) < 2 THEN UNCHANGED vars
     ELSE /\ inboxes' = Put(inboxes, s,
                            [i \in 1..Len(inbox) |->
                               IF ~inbox[i].read THEN MarkRead(inbox[i]) ELSE inbox[i]])
          /\ transcript' =
               Put(transcript, s,
                   Append(transcript[s],
                          [i \in 1..Len(unread) |-> AssistantMessage(s, unread[i])]))
          /\ UNCHANGED <<threadVars, promptVars, activeSessions, sessionToAlias, aliasToSession,
                         agentDescriptions, nextAgentIndex, sessionParentCache,
                         calls, msgCount>>

\* Mutant: the surfaced messages are not marked read.
Injector_noMark(s) ==
  LET unread == getUnreadMessages(s)
  IN /\ Len(unread) > 0
     /\ transcript' =
          Put(transcript, s,
              Append(transcript[s],
                     [i \in 1..Len(unread) |-> AssistantMessage(s, unread[i])]))
     /\ UNCHANGED <<threadVars, promptVars, inboxes, activeSessions, sessionToAlias, aliasToSession,
                    agentDescriptions, nextAgentIndex, sessionParentCache,
                    calls, msgCount>>

\* "experimental.chat.messages.transform" when the last user message of the
\* transcript belongs to session s: every unread message of s is pushed to
\* output.messages and marked read.  Without a user message in the
\* transcript the hook returns at once and changes nothing.
Injector(s) ==
  LET inbox == getInbox(inboxes, s)
      unread == getUnreadMessages(s)
  IN /\ inboxes' = Put(inboxes, s,
                       [i \in 1..Len(inbox) |->
                          IF ~inbox[i].read THEN MarkRead(inbox[i]) ELSE inbox[i]])
     /\ transcript' =
          IF Len(unread) = 0 THEN transcript
          ELSE Put(transcript, s,
                   Append(transcript[s],
                          [i \in 1..Len(unread) |-> AssistantMessage(s, unread[i])]))
     /\ UNCHANGED <<threadVars, promptVars, activeSessions, sessionToAlias, aliasToSession,
                    agentDescriptions, nextAgentIndex, sessionParentCache,
                    calls, msgCount>>

\* markAllRead(sessionId)
markAllRead(boxes, sessionId) ==
  Put(boxes, sessionId,
      [i \in 1..Len(boxes[sessionId]) |-> MarkRead(boxes[sessionId][i])])

\* markMessagesFromSenderAsRead with the mutation "the sender is not
\* compared".
markMessagesFromSenderAsRead_anySender(boxes, sessionId, senderSessionId) ==
  LET inbox == getInbox(boxes, sessionId)
  IN Put(boxes, sessionId,
         [i \in 1..Len(inbox) |->
            IF ~inbox[i].read THEN MarkRead(inbox[i]) ELSE inbox[i]])

\* markMessagesFromSenderAsRead(sessionId, senderSessionId)
markMessagesFromSenderAsRead(boxes, sessionId, senderSessionId) ==
  LET inbox == getInbox(boxes, sessionId)
      senderAlias == getAlias(sessionToAlias, senderSessionId)
  IN Put(boxes, sessionId,
         [i \in 1..Len(inbox) |->
            IF ~inbox[i].read /\ inbox[i].from = senderAlias
            THEN MarkRead(inbox[i]) ELSE inbox[i]])

\* The two marking functions are not called by any tool or hook of
\* index.ts; SpecStore calls them directly.
MarkAllRead(s) ==
  /\ inboxes' = markAllRead(inboxes, s)
  /\ UNCHANGED <<threadVars, promptVars, activeSessions, sessionToAlias, aliasToSession,
                 agentDescriptions, nextAgentIndex, sessionParentCache,
                 calls, transcript, msgCount>>

MarkMessagesFromSenderAsRead(s, sender) ==
  /\ inboxes' = markMessagesFromSenderAsRead(inboxes, s, sender)
  /\ UNCHANGED <<threadVars, promptVars, activeSessions, sessionToAlias, aliasToSession,
                 agentDescriptions, nextAgentIndex, sessionParentCache,
                 calls, transcript, msgCount>>

\* -------------------------------------------------------------- inputs
Bodies == {"ping"}

ToInputs ==
  { <<>>, <<"ALL">>, <<"agentB">>, <<"parent">>, <<"zed">>, <<"ses2">>,
    <<"agentB", ",", " ", "agentC">>, <<"agentA", ",", "parent">>, <<" ", ",">> }

\* The arguments of a broadcast call: <<to, message>>.  A call without a
\* message returns before it looks at `to`.
BroadcastInputs ==
  (ToInputs \X Bodies) \cup {<<to, "">> : to \in {<<>>, <<"agentB">>}}

\* The answers of the host to client.session.get for session s.
HostAnswers(s, mayFail) ==
  IF mayFail THEN {HostParent(s), "throw"} ELSE {HostParent(s)}

\* The tools and hooks of the plugin for the three sessions.  announce is
\* called without a message here.
Hooks(mayFail) ==
  \/ \E s \in Sessions : TaskCompleted(s)
  \/ \E s \in Sessions : Announce(s, "")
  \/ \E s \in Sessions, in \in BroadcastInputs : BroadcastStart(s, in[1], in[2])
  \/ \E s \in Sessions : \E found \in HostAnswers(s, mayFail), hasPost \in BOOLEAN :
       BroadcastResume(s, found, hasPost)
  \/ \E s \in Sessions : BroadcastNotified(s)
  \/ \E s \in Sessions : Injector(s)

\* Spec: the plugin as the host drives it, the host answering every session
\* lookup.
Next == Hooks(FALSE)

Spec == Init /\ [][Next]_vars

\* SpecTurns: Spec where the host goes on running turns: a session whose
\* messages.transform hook has unread messages to surface is run in the end.
SpecTurns == Spec /\ \A s \in Sessions : WF_vars(Injector(s))

\* SpecLookup: broadcasts to the parent and to an agent under a host whose
\* client.session.get may fail.
LookupInputs == { <<"parent">>, <<"agentA", ",", "parent">>, <<"agentB">> }

NextLookup ==
  \/ \E s \in Sessions : TaskCompleted(s)
  \/ \E s \in Sessions, to \in LookupInputs, message \in Bodies :
       BroadcastStart(s, to, message)
  \/ \E s \in Sessions : \E found \in HostAnswers(s, TRUE), hasPost \in BOOLEAN :
       BroadcastResume(s, found, hasPost)
  \/ \E s \in Sessions : BroadcastNotified(s)
  \/ \E s \in Sessions : Injector(s)

SpecLookup == Init /\ [][NextLookup]_vars

\* SpecDesc: Spec together with announce calls that carry a description.
Descriptions == {"reviewer"}

NextDesc ==
  \/ Next
  \/ \E s \in Sessions, message \in Descriptions : Announce(s, message)

SpecDesc == Init /\ [][NextDesc]_vars

\* SpecAnnounce: registrations and announce calls without a message and
\* with one of two descriptions.
AnnounceInputs == {"", "reviewer", "tester"}

NextAnnounce ==
  \/ \E s \in Sessions : TaskCompleted(s)
  \/ \E s \in Sessions, message \in AnnounceInputs : Announce(s, message)

SpecAnnounce == Init /\ [][NextAnnounce]_vars

\* SpecRace: broadcasts to all, to agentA and to the parent, of which
\* MaxRacing may be suspended at one time, with the injector.
RaceInputs == { <<>>, <<"agentA">>, <<"parent">> }

NextRace ==
  \/ \E s \in Sessions, to \in RaceInputs, message \in Bodies :
       BroadcastStartWithin(s, to, message, MaxRacing)
  \/ \E s \in Sessions : \E found \in HostAnswers(s, FALSE), hasPost \in BOOLEAN :
       BroadcastResume(s, found, hasPost)
  \/ \E s \in Sessions : BroadcastNotified(s)
  \/ \E s \in Sessions : Injector(s)

SpecRace == Init /\ [][NextRace]_vars

\* SpecStore: Spec together with direct calls of the marking functions of
\* the message store.
NextStore ==
  \/ Next
  \/ \E s \in Sessions : MarkAllRead(s)
  \/ \E s, sender \in Sessions : MarkMessagesFromSenderAsRead(s, sender)

SpecStore == Init /\ [][NextStore]_vars

\* SpecReg: registrations only, for MaxIds session ids.  Session ids are
\* opaque: the first FreeOrder ids register in any order, the later ones
\* in the order of their numbers; a registered id may register again.
RegisterId(i) ==
  /\ i <= (IF Len(activeSessions) < FreeOrder THEN FreeOrder
           ELSE Len(activeSessions) + 1)
  /\ TaskCompleted(SessId(i))

NextReg == \E i \in 1..MaxIds : RegisterId(i)

SpecReg == Init /\ [][NextReg]_vars

\* ------------------------------------------- thread tracker (part_002)
\* A file path is the sequence of its segments; no path is the empty
\* sequence.  An absent participants list is NoParticipants.
NoPath == <<>>

NoParticipants == <<Null>>

inboxDir == <<".inbox/">>

\* JavaScript truthiness of an optional string.
Truthy(x) == x # Null /\ x # ""

\* [from, to].filter(Boolean)
filterBoolean(q) == SelectSeq(q, Truthy)

\* String.prototype.endsWith on paths
endsWith(p, suffix) ==
  /\ Len(suffix) <= Len(p)
  /\ SubSeq(p, Len(p) - Len(suffix) + 1, Len(p)) = suffix

\* Date.now() after the call that returned t.  The clock is logical: every
\* call returns the next value, which tells a later call from an earlier one.
DateNow(t) == t + 1

\* Index of the first TRUE of the sequence hit, 0 when there is none (the
\* loops `for (const t of threads.values())` and Array.findIndex, hit[i]
\* being the outcome of the test on the i-th element).
FirstIndex(hit) ==
  IF \E i \in 1..Len(hit) : hit[i]
  THEN CHOOSE i \in 1..Len(hit) : hit[i] /\ \A j \in 1..(i - 1) : ~hit[j]
  ELSE 0

\* threads.has(id) / threads.get(id)
indexOfThread(ths, id) == FirstIndex([i \in 1..Len(ths) |-> ths[i].id = id])

\* The first tracked thread whose filePath is exactly filePath.
indexOfFile(ths, filePath) ==
  FirstIndex([i \in 1..Len(ths) |-> ths[i].filePath = filePath])

\* getThreadByPath(filePath): index of the thread, 0 for undefined
getThreadByPath(ths, filePath) ==
  FirstIndex([i \in 1..Len(ths) |->
                ths[i].filePath = filePath \/ endsWith(filePath, ths[i].filePath)])

\* getThread(threadId): the thread in a sequence of length 1, <<>> for undefined
getThread(threadId) ==
  IF indexOfThread(threads, threadId) = 0 THEN <<>>
  ELSE <<threads[indexOfThread(threads, threadId)]>>

\* generateThreadId(): a token no tracked thread has; the caller's ids never
\* start with "thread_".
generateThreadId(ths) == "thread_" \o ToString(Len(ths) + 1)

\* threads.set(id, thread): Map.prototype.set keeps the place of a key it has.
setThread(ths, id, thread) ==
  IF indexOfThread(ths, id) = 0 THEN Append(ths, thread)
  ELSE [ths EXCEPT ![indexOfThread(ths, id)] = thread]

\* participants.forEach(p => { if (!includes(p)) push(p) })
RECURSIVE pushMissing(_, _)
pushMissing(participants, ps) ==
  IF ps = <<>> THEN participants
  ELSE pushMissing(IF SeqHas(participants, Head(ps)) THEN participants
                   ELSE Append(participants, Head(ps)),
                   Tail(ps))

\* Set.prototype.add on an insertion-ordered set
setAdd(set, x) == IF SeqHas(set, x) THEN set ELSE Append(set, x)

\* sessionThreads.get(p).add(id) for every participant p
RECURSIVE trackSessions(_, _, _)
trackSessions(sthreads, participants, id) ==
  IF participants = <<>> THEN sthreads
  ELSE LET p == Head(participants)
           mine == IF Has(sthreads, p) THEN sthreads[p] ELSE <<>>
       IN trackSessions(Put(sthreads, p, setAdd(mine, id)), Tail(participants), id)

ThreadUpdate(thread, from, participant, now) ==
  [threadId |-> thread.id, filePath |-> thread.filePath, from |-> from,
   to |-> participant, subject |-> thread.subject, timestamp |-> now,
   read |-> FALSE]

\* One round of the queueing loop with the mutation "always push".
queueUpdate_push(pend, update) ==
  LET existing == IF Has(pend, update.to) THEN pend[update.to] ELSE <<>>
  IN Put(pend, update.to, Append(existing, update))

\* One round of the queueing loop: the update replaces the pending update
\* of its thread in the recipient's list, or is pushed at the end.
queueUpdate(pend, update) ==
  LET existing == IF Has(pend, update.to) THEN pend[update.to] ELSE <<>>
      existingIdx == FirstIndex([i \in 1..Len(existing) |->
                                   existing[i].threadId = update.threadId])
  IN Put(pend, update.to,
         IF existingIdx > 0 THEN [existing EXCEPT ![existingIdx] = update]
         ELSE Append(existing, update))

\* notifyThreadUpdate(thread, from), from participant number i on
RECURSIVE notifyThreadUpdate(_, _, _, _, _)
notifyThreadUpdate(pend, thread, from, now, i) ==
  IF i > Len(thread.participants) THEN pend
  ELSE LET participant == thread.participants[i] IN
       notifyThreadUpdate(
         IF participant = from THEN pend
         ELSE queueUpdate(pend, ThreadUpdate(thread, from, participant, now)),
         thread, from, now, i + 1)

\* The last loop of createOrUpdateThread, from participant number i on
RECURSIVE queueUpdates(_, _, _, _, _)
queueUpdates(pend, thread, from, now, i) ==
  IF i > Len(thread.participants) THEN pend
  ELSE LET participant == thread.participants[i] IN
       queueUpdates(
         IF participant = from THEN pend
         ELSE queueUpdate(pend, ThreadUpdate(thread, from, participant, now)),
         thread, from, now, i + 1)

\* The lookup with the mutation "the file is looked up before the id".
resolveThread_fileFirst(existingFilePath, existingThreadId) ==
  LET byFile == IF existingFilePath # NoPath
                THEN indexOfFile(threads, existingFilePath) ELSE 0
      byId == IF byFile = 0 /\ Truthy(existingThreadId)
              THEN indexOfThread(threads, existingThreadId) ELSE 0
  IN [byId |-> byId, byFile |-> byFile]

\* The lookup of createOrUpdateThread: the index of the thread the id
\* names or else of the first thread on the file, 0 for none.
resolveThread(existingFilePath, existingThreadId) ==
  LET byId == IF Truthy(existingThreadId)
              THEN indexOfThread(threads, existingThreadId) ELSE 0
      byFile == IF byId = 0 /\ existingFilePath # NoPath
                THEN indexOfFile(threads, existingFilePath) ELSE 0
  IN [byId |-> byId, byFile |-> byFile]

\* createOrUpdateThread up to `await fs.writeFile`: the thread map it
\* leaves, the index of the thread it resolved to, and whether it suspends.
createOrUpdateThread(from, to, subject, existingFilePath, existingThreadId, now) ==
  LET participants == filterBoolean(<<from, to>>)
      byId == resolveThread(existingFilePath, existingThreadId).byId
      byFile == resolveThread(existingFilePath, existingThreadId).byFile
      threadId == IF Truthy(existingThreadId) THEN existingThreadId
                  ELSE generateThreadId(threads)
      filePath == IF existingFilePath # NoPath THEN existingFilePath
                  ELSE inboxDir \o <<threadId \o ".md">>
      thread == [id |-> threadId, filePath |-> filePath,
                 participants |-> participants, subject |-> subject,
                 createdAt |-> now, updatedAt |-> now, lastAuthor |-> from]
  IN IF byId > 0
     THEN [threads |-> [threads EXCEPT ![byId] =
                          [@ EXCEPT !.updatedAt = now, !.lastAuthor = from,
                                    !.participants = pushMissing(@, participants)]],
           idx |-> byId, created |-> FALSE, await |-> FALSE]
     ELSE IF byFile > 0
     THEN [threads |-> [threads EXCEPT ![byFile] =
                          [@ EXCEPT !.updatedAt = now, !.lastAuthor = from]],
           idx |-> byFile, created |-> FALSE, await |-> FALSE]
     ELSE [threads |-> setThread(threads, threadId, thread),
           idx |-> indexOfThread(setThread(threads, threadId, thread), threadId),
           created |-> TRUE, await |-> existingFilePath = NoPath]

\* The call of createOrUpdateThread, to its return or to its suspension at
\* fs.writeFile.  The suspended call keeps `thread`, `from` and `now`.
CreateOrUpdateThread(from, to, subject, existingFilePath, existingThreadId) ==
    LET now == DateNow(clock)
        r == createOrUpdateThread(from, to, subject, existingFilePath,
                                  existingThreadId, now)
        thread == r.threads[r.idx]
    IN /\ r.created => Len(threads) < MaxThreads
       /\ r.await => Cardinality(writes) < MaxWriting
       /\ clock' = now
       /\ threads' = r.threads
       /\ IF r.await
          THEN /\ writes' = writes \cup {[id |-> thread.id, from |-> from,
                                          now |-> now, orphan |-> <<>>]}
               /\ UNCHANGED <<pendingUpdates, sessionThreads>>
          ELSE /\ sessionThreads' =
                    trackSessions(sessionThreads, thread.participants, thread.id)
               /\ pendingUpdates' = queueUpdates(pendingUpdates, thread, from, now, 1)
               /\ UNCHANGED writes
       /\ UNCHANGED <<siblingVars, mailVars, promptVars>>

\* fs.writeFile settles for the suspended call w.  When it resolved, the
\* call tracks the participants of `thread` and queues the updates; when it
\* rejected, createOrUpdateThread rejects and the thread stays tracked.
\* `thread` is the object the call created: the record of the thread map,
\* or w.orphan once the map holds another object under the id.
WriteFileSettles(w, resolved) ==
  LET thread == IF w.orphan = <<>> THEN threads[indexOfThread(threads, w.id)]
                ELSE w.orphan[1]
  IN /\ w \in writes
     /\ writes' = writes \ {w}
     /\ IF resolved
        THEN /\ sessionThreads' =
                  trackSessions(sessionThreads, thread.participants, thread.id)
             /\ pendingUpdates' =
                  queueUpdates(pendingUpdates, thread, w.from, w.now, 1)
        ELSE UNCHANGED <<pendingUpdates, sessionThreads>>
     /\ UNCHANGED <<threads, clock, siblingVars, mailVars, promptVars>>

\* trackExternalThread: the thread map and the session membership it
\* leaves, the index of the thread it returns and, in `replaced`, the
\* record that threads.set(id, thread) took out of the map.
trackExternalThread(filePath, from, to, threadId, subject, participants, now) ==
  LET id == IF Truthy(threadId) THEN threadId ELSE generateThreadId(threads)
      allParticipants == IF participants # NoParticipants THEN participants
                         ELSE filterBoolean(<<from, to>>)
      known == indexOfFile(threads, filePath)
      thread == [id |-> id, filePath |-> filePath,
                 participants |-> allParticipants, subject |-> subject,
                 createdAt |-> now, updatedAt |-> now, lastAuthor |-> from]
  IN IF known > 0
     THEN [threads |-> [threads EXCEPT ![known] =
                          [@ EXCEPT !.updatedAt = now, !.lastAuthor = from,
                                    !.participants = pushMissing(@, allParticipants)]],
           sessionThreads |-> sessionThreads,
           idx |-> known, created |-> FALSE, replaced |-> <<>>]
     ELSE [threads |-> setThread(threads, id, thread),
           sessionThreads |-> trackSessions(sessionThreads, allParticipants, id),
           idx |-> indexOfThread(setThread(threads, id, thread), id),
           created |-> indexOfThread(threads, id) = 0,
           replaced |-> getThread(id)]

\* The suspended calls whose `thread` is the object old lose it from the map.
orphaned(ws, old) ==
  IF old = <<>> THEN ws
  ELSE {IF w.id = old[1].id /\ w.orphan = <<>> THEN [w EXCEPT !.orphan = old] ELSE w
          : w \in ws}

\* markThreadRead with the mutation "every update of the session goes".
markThreadRead_all(pend, sessionId, filePath) ==
  IF ~Has(pend, sessionId) THEN pend
  ELSE Put(pend, sessionId, <<>>)

\* markThreadRead with the mutation "the filter is inverted".
markThreadRead_inverted(pend, sessionId, filePath) ==
  IF ~Has(pend, sessionId) THEN pend
  ELSE Put(pend, sessionId,
           SelectSeq(pend[sessionId],
                     LAMBDA u : ~(u.filePath # filePath /\ ~endsWith(filePath, u.filePath))))

\* markThreadRead(sessionId, filePath)
markThreadRead(pend, sessionId, filePath) ==
  IF ~Has(pend, sessionId) THEN pend
  ELSE Put(pend, sessionId,
           SelectSeq(pend[sessionId],
                     LAMBDA u : u.filePath # filePath /\ ~endsWith(filePath, u.filePath)))

\* getPendingUpdates(): the lists of all sessions, one after the other
RECURSIVE getPendingUpdates(_, _)
getPendingUpdates(pend, keys) ==
  IF keys = {} THEN <<>>
  ELSE LET k == CHOOSE x \in keys : TRUE IN
       pend[k] \o getPendingUpdates(pend, keys \ {k})

\* ------------------------------------------ sibling registry (part_002)
\* registerSubagent(sessionId, parentId)
registerSubagent(sessionId, parentId) ==
  [sessionParents |-> Put(sessionParents, sessionId, parentId),
   siblingRegistry |->
     Put(siblingRegistry, parentId,
         setAdd(IF Has(siblingRegistry, parentId) THEN siblingRegistry[parentId]
                ELSE <<>>,
                sessionId))]

\* getSiblings(sessionId)
getSiblings(sessionId) ==
  IF ~Has(sessionParents, sessionId) THEN <<>>
  ELSE IF ~Has(siblingRegistry, sessionParents[sessionId]) THEN <<>>
  ELSE SelectSeq(siblingRegistry[sessionParents[sessionId]],
                 LAMBDA id : id # sessionId)

\* getChildren(parentId)
getChildren(parentId) ==
  IF Has(siblingRegistry, parentId) THEN siblingRegistry[parentId] ELSE <<>>

\* cleanupSession(sessionId)
CleanupSession(sessionId) ==
  /\ pendingUpdates' = Remove(pendingUpdates, sessionId)
  /\ sessionThreads' = Remove(sessionThreads, sessionId)
  /\ siblingRegistry' =
       IF Has(sessionParents, sessionId)
          /\ Has(siblingRegistry, sessionParents[sessionId])
       THEN Put(siblingRegistry, sessionParents[sessionId],
                SelectSeq(siblingRegistry[sessionParents[sessionId]],
                          LAMBDA id : id # sessionId))
       ELSE siblingRegistry
  /\ sessionParents' = Remove(sessionParents, sessionId)
  /\ UNCHANGED <<threads, writes, clock, mailVars, promptVars>>

\* ------------------------------------------------ hooks (part_004)
\* isValidMail with the mutation "the recipient is not looked at".
isValidMail_mailOnly(fm) == fm.mail = TRUE

\* isValidMail of the parsed metadata (lib/frontmatter)
isValidMail(fm) == fm.mail = TRUE /\ fm.to # ""

\* "tool.execute.after" for the write tool on filePath, fm being the
\* metadata parsed from the file.
WriteHook(sessionID, filePath, fm) ==
  IF ~isValidMail(fm) THEN UNCHANGED vars
  ELSE
    LET now == DateNow(clock)
        later == DateNow(now)
        from == IF Truthy(fm.from) THEN fm.from ELSE sessionID
        r == trackExternalThread(filePath, from, fm.to, fm.thread, fm.subject,
                                 fm.participants, now)
    IN /\ r.created => Len(threads) < MaxThreads
       /\ threads' = r.threads
       /\ sessionThreads' = r.sessionThreads
       /\ writes' = orphaned(writes, r.replaced)
       /\ pendingUpdates' =
            notifyThreadUpdate(pendingUpdates, r.threads[r.idx], from, later, 1)
       /\ clock' = later
       /\ UNCHANGED <<siblingVars, mailVars, promptVars>>

\* "tool.execute.after" for the edit tool on filePath
EditHook(sessionID, filePath, fm) ==
  IF ~isValidMail(fm) THEN UNCHANGED vars
  ELSE IF getThreadByPath(threads, filePath) > 0
  THEN /\ pendingUpdates' =
            notifyThreadUpdate(pendingUpdates,
                               threads[getThreadByPath(threads, filePath)],
                               sessionID, DateNow(clock), 1)
       /\ clock' = DateNow(clock)
       /\ UNCHANGED <<threads, sessionThreads, writes, siblingVars, mailVars, promptVars>>
  ELSE WriteHook(sessionID, filePath, fm)

\* "tool.execute.after" for the read tool on filePath
ReadHook(sessionID, filePath) ==
  /\ pendingUpdates' = markThreadRead(pendingUpdates, sessionID, filePath)
  /\ UNCHANGED <<threads, sessionThreads, writes, clock, siblingVars, mailVars, promptVars>>

\* "tool.execute.after" for the task tool: session sessionID spawned
\* newSessionId.
TaskHook(sessionID, newSessionId) ==
  /\ sessionParents' = registerSubagent(newSessionId, sessionID).sessionParents
  /\ siblingRegistry' = registerSubagent(newSessionId, sessionID).siblingRegistry
  /\ UNCHANGED <<trackerVars, mailVars, promptVars>>

\* The line of the notification for one pending update.
NotificationLine(update) ==
  [from |-> update.from, subject |-> update.subject, filePath |-> update.filePath]

\* "experimental.chat.messages.transform" of part_004 for a transcript
\* whose last user message belongs to sessionID: the lines of the
\* synthetic user message the hook pushes to output.messages, one for each
\* pending update of the session; <<>> when it pushes nothing.  Without a
\* user message in the transcript the hook returns at once.
threadNotification(sessionID, hasUser) ==
  LET updates == getPendingUpdates(pendingUpdates, DOMAIN pendingUpdates)
      sessionUpdates == SelectSeq(updates, LAMBDA u : u.to = sessionID /\ ~u.read)
  IN IF Len(updates) = 0 \/ ~hasUser THEN <<>>
     ELSE [i \in 1..Len(sessionUpdates) |-> NotificationLine(sessionUpdates[i])]

\* The injector with the mutation "a surfaced update is taken off the list".
ThreadInjector_consume(sessionID) ==
  /\ pendingUpdates' =
       IF threadNotification(sessionID, TRUE) = <<>> THEN pendingUpdates
       ELSE Put(pendingUpdates, sessionID, <<>>)
  /\ UNCHANGED <<threads, sessionThreads, writes, clock, siblingVars, mailVars, promptVars>>

\* A run of the hook: it writes to output.messages only, and leaves the
\* state of the tracker as it is.
ThreadInjector(sessionID) ==
  UNCHANGED vars

\* ------------------------------------------------ inputs of the tracker
\* Thread ids a caller supplies: none, or the id it chose.
ThreadIds == {Null, "t1"}

\* Files agents write: one of them named by a relative and by an absolute
\* path.
FilePaths == { <<".inbox/", "a.md">>, <<"/repo/", ".inbox/", "a.md">>,
               <<".inbox/", "b.md">> }

\* The recipients named in a call or in the metadata of a file.
Recipients == {"ses1", "ses2"}

\* The existingFilePath of a call of createOrUpdateThread.
ApiPaths == {NoPath, <<".inbox/", "a.md">>}

\* The paths of the tracked threads.
TrackedPaths == {threads[i].filePath : i \in 1..Len(threads)}

\* Parsed metadata of a file: mail to `to` on thread `thread`.
Mail(to, thread) ==
  [mail |-> TRUE, to |-> to, from |-> Null, subject |-> "sync",
   thread |-> thread, participants |-> NoParticipants]

\* SpecThreads: direct calls of createOrUpdateThread and cleanupSession,
\* which no hook calls, with the read hook and the injector.
NextThreads ==
  \/ /\ clock < MaxClock
     /\ \E from \in Sessions, to \in Recipients, path \in ApiPaths, id \in ThreadIds :
          CreateOrUpdateThread(from, to, "sync", path, id)
  \/ \E w \in writes, resolved \in BOOLEAN : WriteFileSettles(w, resolved)
  \/ \E s \in Sessions, path \in TrackedPaths : ReadHook(s, path)
  \/ \E s \in Sessions : ThreadInjector(s)
  \/ \E s \in Sessions : CleanupSession(s)

SpecThreads == Init /\ [][NextThreads]_vars

\* SpecHooks: the thread tracker under the hooks of part_004.
NextHooks ==
  \/ /\ clock < MaxHookClock
     /\ \E s \in Sessions, path \in FilePaths, to \in Recipients, id \in ThreadIds :
          WriteHook(s, path, Mail(to, id))
  \/ /\ clock < MaxHookClock
     /\ \E s \in Sessions, path \in FilePaths, to \in Recipients, id \in ThreadIds :
          EditHook(s, path, Mail(to, id))
  \/ \E s \in Sessions, path \in FilePaths : ReadHook(s, path)
  \/ \E s \in Sessions : ThreadInjector(s)

SpecHooks == Init /\ [][NextHooks]_vars

\* SpecMeta: the write, edit and read hooks on files whose metadata may
\* lack `mail: true` or a recipient, and may declare a sender and a list of
\* participants.
MetaPaths == { <<".inbox/", "a.md">>, <<".inbox/", "b.md">> }

Metas ==
  [mail : BOOLEAN, to : {"", "ses1", "ses2"}, from : {Null, "ses1"},
   subject : {"sync"}, thread : {Null},
   participants : {NoParticipants, <<"ses2", "ses3">>}]

NextMeta ==
  \/ /\ clock < MaxMetaClock
     /\ \E s \in Sessions, path \in MetaPaths, fm \in Metas : WriteHook(s, path, fm)
  \/ /\ clock < MaxMetaClock
     /\ \E s \in Sessions, path \in MetaPaths, fm \in Metas : EditHook(s, path, fm)
  \/ \E s \in Sessions, path \in MetaPaths : ReadHook(s, path)

SpecMeta == Init /\ [][NextMeta]_vars

\* SpecInject: Spec together with the thread tracker under one write hook
\* for mail to ses2, the read hook and the injector of part_004, so that
\* direct messages and thread updates are pending in one behaviour.
NextInject ==
  \/ Next
  \/ /\ clock < MaxInjectClock
     /\ \E s \in Sessions :
          WriteHook(s, <<".inbox/", "a.md">>, Mail("ses2", Null))
  \/ \E s \in Sessions, path \in TrackedPaths : ReadHook(s, path)
  \/ \E s \in Sessions : ThreadInjector(s)

SpecInject == Init /\ [][NextInject]_vars

\* ------------------------------------ system prompt hook (index.ts)
\* The text of the IAM instructions.
SYSTEM_PROMPT == "SYSTEM_PROMPT"

\* "experimental.chat.system.transform": output.system after the hook ran
\* for input.sessionID = sessionId on the prompt `system` of the host.
systemTransform(sessionId, system) ==
  IF ~Truthy(sessionId) THEN system ELSE Append(system, SYSTEM_PROMPT)

SystemTransform(sessionId, system) ==
  /\ systemRun' = [sessionID |-> sessionId,
                   system |-> systemTransform(sessionId, system)]
  /\ UNCHANGED <<mailVars, threadVars>>

\* The system prompts of the host: none, or one part.
HostPrompts == {<<>>, <<"host">>}

\* SpecSystem: SpecAnnounce together with the system prompt hook, for the
\* three sessions and for an input without sessionID.
NextSystem ==
  \/ NextAnnounce
  \/ \E sessionId \in Sessions \cup {Null}, system \in HostPrompts :
       SystemTransform(sessionId, system)

SpecSystem == Init /\ [][NextSystem]_vars

\* SpecSiblings: the sibling registry under the task hook and direct calls
\* of cleanupSession.
NextSiblings ==
  \/ \E s, newSessionId \in Sessions : s # newSessionId /\ TaskHook(s, newSessionId)
  \/ \E s \in Sessions : CleanupSession(s)

SpecSiblings == Init /\ [][NextSiblings]_vars

\* ------------------------------------------------------------ properties
RegisteredIds == {activeSessions[i] : i \in 1..Len(activeSessions)}

Pos(sessionId) == CHOOSE i \in 1..Len(activeSessions) : activeSessions[i] = sessionId

\* C1: the mapping between registered session ids and aliases is a
\* bijection: every registered id has exactly one alias, no two ids share
\* an alias, and sessionToAlias and aliasToSession are inverse of each other.
AliasBijection ==
  /\ DOMAIN sessionToAlias = RegisteredIds
  /\ \A s \in DOMAIN sessionToAlias :
       /\ sessionToAlias[s] \in DOMAIN aliasToSession
       /\ aliasToSession[sessionToAlias[s]] = s
  /\ \A a \in DOMAIN aliasToSession :
       /\ aliasToSession[a] \in DOMAIN sessionToAlias
       /\ sessionToAlias[aliasToSession[a]] = a
  /\ \A s1, s2 \in DOMAIN sessionToAlias :
       s1 # s2 => sessionToAlias[s1] # sessionToAlias[s2]

\* More than 26 ids are registered, so the letters have wrapped around.
AliasBijectionWitness ==
  /\ Len(activeSessions) >= 28
  /\ sessionToAlias[activeSessions[27]] = "agentA1"
  /\ sessionToAlias[activeSessions[1]] = "agentA"

RegistryVars == <<activeSessions, sessionToAlias, aliasToSession, nextAgentIndex>>

\* C2: an entry point (task completion hook, announce, broadcast) that
\* registers an id that is already registered leaves the alias counter,
\* both alias maps and the active-session set unchanged.
RegisterIdempotent ==
  [][\/ UNCHANGED RegistryVars
     \/ \A s \in Sessions :
          SeqHas(activeSessions, s) =>
            ~ \/ TaskCompleted(s)
              \/ Announce(s, "")
              \/ \E in \in BroadcastInputs : BroadcastStart(s, in[1], in[2])
    ]_vars

\* ses1 has sent a message and has called broadcast again: its second call
\* registered an id that was registered already.
RegisterIdempotentWitness ==
  /\ Has(calls, "ses1")
  /\ calls["ses1"].pc = "getParentId"
  /\ \E r \in Sessions : \E i \in 1..Len(inboxes[r]) :
       inboxes[r][i].from = sessionToAlias["ses1"]
  /\ nextAgentIndex = Len(activeSessions)

\* C3: the n-th distinct id registered gets the n-th alias of agentA,
\* agentB, agentC, ..., and an alias once assigned stays with its id and is
\* never given to another id, also beyond the 26th registration.
AliasSequence ==
  [][ /\ \A a \in DOMAIN aliasToSession :
           /\ a \in DOMAIN aliasToSession'
           /\ aliasToSession'[a] = aliasToSession[a]
      /\ \A s \in DOMAIN sessionToAlias :
           /\ s \in DOMAIN sessionToAlias'
           /\ sessionToAlias'[s] = sessionToAlias[s]
      /\ \A n \in 1..Len(activeSessions') :
           /\ n <= 26 => sessionToAlias'[activeSessions'[n]] = "agent" \o Letters[n]
           /\ \A k \in 1..Len(activeSessions') :
                k # n => sessionToAlias'[activeSessions'[k]]
                           # sessionToAlias'[activeSessions'[n]]
           /\ aliasToSession'[sessionToAlias'[activeSessions'[n]]] = activeSessions'[n]
    ]_vars

\* The ids were not registered in the order of their numbers, and the 27th
\* and 28th registrations have happened.
AliasSequenceWitness ==
  /\ Len(activeSessions) >= 28
  /\ activeSessions[1] # SessId(1)
  /\ sessionToAlias[activeSessions[26]] = "agentZ"
  /\ sessionToAlias[activeSessions[28]] = "agentB1"

\* C4 as stated: the first id registered is agent1, the second agent2, and
\* listOthers for the first returns [agent2].
ScenarioANumbered ==
  /\ Len(activeSessions) >= 1 => sessionToAlias[activeSessions[1]] = "agent1"
  /\ Len(activeSessions) >= 2 => sessionToAlias[activeSessions[2]] = "agent2"
  /\ Len(activeSessions) = 2 =>
       getKnownAgents(activeSessions, sessionToAlias, activeSessions[1]) = <<"agent2">>

\* C4 amended: the first id registered is agentA, the second agentB, and
\* with these two registered getKnownAgents for the first returns [agentB].
ScenarioALettered ==
  /\ Len(activeSessions) >= 1 => sessionToAlias[activeSessions[1]] = "agentA"
  /\ Len(activeSessions) >= 2 => sessionToAlias[activeSessions[2]] = "agentB"
  /\ Len(activeSessions) = 2 =>
       getKnownAgents(activeSessions, sessionToAlias, activeSessions[1]) = <<"agentB">>

ScenarioAWitness ==
  /\ Len(activeSessions) = 2
  /\ nextAgentIndex = 2
  /\ getKnownAgents(activeSessions, sessionToAlias, activeSessions[1]) # <<>>

\* C5: for every registered caller getKnownAgents returns the aliases of
\* all registered sessions except the caller, each once, in the order in
\* which those sessions were registered.
KnownAgentsInOrder ==
  \A s \in RegisteredIds :
    LET known == getKnownAgents(activeSessions, sessionToAlias, s) IN
    /\ Len(known) = Len(activeSessions) - 1
    /\ \A i \in 1..Len(known) :
         /\ known[i] \in DOMAIN aliasToSession
         /\ aliasToSession[known[i]] \in RegisteredIds \ {s}
    /\ \A i, j \in 1..Len(known) :
         i < j => Pos(aliasToSession[known[i]]) < Pos(aliasToSession[known[j]])

\* Three sessions registered, the caller in the middle, not in id order.
KnownAgentsInOrderWitness ==
  /\ activeSessions = <<"ses3", "ses1", "ses2">>
  /\ getKnownAgents(activeSessions, sessionToAlias, "ses1") = <<"agentA", "agentC">>

\* The broadcast call of s passes its resolve and send loops in this step.
Resumes(s) ==
  /\ Has(calls, s)
  /\ calls[s].pc = "getParentId"
  /\ Has(calls', s) => calls'[s].pc # "getParentId"

\* The targets that denote the caller s itself: its alias and its raw id.
OwnNames(s) == {s} \cup (IF Has(sessionToAlias, s) THEN {sessionToAlias[s]} ELSE {})

\* C6: no mailbox ever holds a message whose from is the alias of the
\* mailbox's own session; a broadcast target that denotes the caller is
\* dropped without touching the caller's mailbox, and when every target
\* denotes the caller the call reports no valid recipients and appends
\* nothing.
NoSelfDelivery ==
  [][ /\ \A r \in Sessions : \A i \in 1..Len(inboxes'[r]) :
           /\ inboxes'[r][i].to = r
           /\ Has(sessionToAlias', r) => inboxes'[r][i].from # sessionToAlias'[r]
      /\ \A s \in Sessions :
           Resumes(s) =>
             /\ inboxes'[s] = inboxes[s]
             /\ (\A i \in 1..Len(calls[s].targetAliases) :
                    calls[s].targetAliases[i] \in OwnNames(s))
                => /\ inboxes' = inboxes
                   /\ broadcast(s, sessionParentCache'[s]).kind = "noValidRecipients"
    ]_vars

\* A broadcast to the caller's own alias and its parent is past its send
\* loop: the parent has the message, the caller's own queue has none.
NoSelfDeliveryWitness ==
  \E s \in Sessions :
    /\ Has(calls, s)
    /\ calls[s].pc = "notify_once"
    /\ calls[s].recipients = <<sessionToAlias[s], "parent">>
    /\ inboxes[s] = <<>>
    /\ Len(inboxes[HostParent(s)]) = 1
    /\ inboxes[HostParent(s)][1].from = sessionToAlias[s]

\* C7: a queue keeps its messages in the order in which they were sent to
\* the recipient, getUnreadMessages returns the unread ones in that order,
\* and marking messages read never reorders a queue.
FifoPerRecipient ==
  [][\A r \in Sessions :
       LET before == inboxes[r]
           after == inboxes'[r]
           unread == getUnreadMessages(r)'
       IN /\ Len(after) >= Len(before)
          /\ \A i \in 1..Len(before) : after[i].id = before[i].id
          /\ \A i, j \in 1..Len(after) : i < j => after[i].id < after[j].id
          /\ \A i, j \in 1..Len(unread) : i < j => unread[i].id < unread[j].id
          /\ {unread[i].id : i \in 1..Len(unread)}
               = {after[i].id : i \in {k \in 1..Len(after) : ~after[k].read}}
    ]_vars

\* A queue of two messages whose second message was marked read while the
\* first is still unread.
FifoPerRecipientWitness ==
  \E r \in Sessions :
    /\ Len(inboxes[r]) = 2
    /\ ~inboxes[r][1].read
    /\ inboxes[r][2].read
    /\ Len(getUnreadMessages(r)) = 1

\* C8: a message is created unread, a read flag that is true is never set
\* back to false, and no message is removed from a queue or altered.
ReadMonotone ==
  [][\A r \in Sessions :
       LET before == inboxes[r]
           after == inboxes'[r]
       IN /\ Len(after) >= Len(before)
          /\ \A i \in 1..Len(before) :
               /\ [after[i] EXCEPT !.read = FALSE] = [before[i] EXCEPT !.read = FALSE]
               /\ before[i].read => after[i].read
          /\ \A i \in (Len(before) + 1)..Len(after) : ~after[i].read
    ]_vars

\* A message read by the injector is still read after a later send to the
\* same queue.
ReadMonotoneWitness ==
  \E r \in Sessions :
    /\ Len(inboxes[r]) = 2
    /\ inboxes[r][1].read
    /\ ~inboxes[r][2].read
    /\ Len(transcript[r]) = 1

\* The messages a run of the injector for r pushes, given r's unread ones.
Surfaced(r, unread) ==
  [i \in 1..Len(unread) |->
     [sessionID |-> r, from |-> unread[i].from, body |-> unread[i].body,
      messageId |-> unread[i].id]]

\* C9: a message is queued unread with the sender's alias and the body as
\* sent, it stays unread until the injector runs for its recipient, and one
\* run of the injector for r surfaces every message unread for r, marks
\* each of them read and leaves getUnreadMessages(r) empty.
ScenarioB ==
  [][\A r \in Sessions :
       /\ \A i \in (Len(inboxes[r]) + 1)..Len(inboxes'[r]) :
            \E s \in Sessions \ {r} :
              /\ Resumes(s)
              /\ inboxes'[r][i].read = FALSE
              /\ inboxes'[r][i].from = sessionToAlias[s]
              /\ inboxes'[r][i].body = calls[s].message
       /\ \A i \in 1..Len(inboxes[r]) :
            (~inboxes[r][i].read /\ inboxes'[r][i].read) => Injector(r)
       /\ Injector(r) =>
            /\ transcript'[r] =
                 IF getUnreadMessages(r) = <<>> THEN transcript[r]
                 ELSE Append(transcript[r], Surfaced(r, getUnreadMessages(r)))
            /\ \A i \in 1..Len(inboxes'[r]) : inboxes'[r][i].read
            /\ getUnreadMessages(r)' = <<>>
    ]_vars

\* One run of the injector has surfaced two messages.
ScenarioBWitness ==
  \E r \in Sessions :
    /\ Len(transcript[r]) = 1
    /\ Len(transcript[r][1]) = 2
    /\ Len(inboxes[r]) = 2
    /\ getUnreadMessages(r) = <<>>

\* C10: each message is surfaced at most once: never in two runs of the
\* injector, never twice in one run, and never to a session other than its
\* recipient.
SurfacedOnce ==
  \A r \in Sessions : \A k \in 1..Len(transcript[r]) :
    \A i \in 1..Len(transcript[r][k]) :
      LET a == transcript[r][k][i] IN
      /\ a.sessionID = r
      /\ \E n \in 1..Len(inboxes[r]) :
           inboxes[r][n].id = a.messageId /\ inboxes[r][n].to = r
      /\ \A r2 \in Sessions : \A k2 \in 1..Len(transcript[r2]) :
           \A i2 \in 1..Len(transcript[r2][k2]) :
             <<r2, k2, i2>> # <<r, k, i>> => transcript[r2][k2][i2].messageId # a.messageId

\* Two runs of the injector for the same recipient have each surfaced a
\* message.
SurfacedOnceWitness ==
  \E r \in Sessions :
    /\ Len(transcript[r]) = 2
    /\ Len(inboxes[r]) = 2
    /\ getUnreadMessages(r) = <<>>

\* The pending updates of recipient r on the thread id.
UpdatesOn(pend, r, id) ==
  IF Has(pend, r) THEN SelectSeq(pend[r], LAMBDA u : u.threadId = id) ELSE <<>>

\* The thread ids recipient r has pending updates on.
PendingIds(pend, r) ==
  IF Has(pend, r) THEN {pend[r][i].threadId : i \in 1..Len(pend[r])} ELSE {}

Range(q) == {q[i] : i \in 1..Len(q)}

\* q continues p.
IsPrefix(p, q) == Len(p) <= Len(q) /\ SubSeq(q, 1, Len(p)) = p

\* C12: a call of createOrUpdateThread with the id of a tracked thread
\* resolves to that thread whatever file it names: no thread is added, every
\* other thread is left as it was, and the thread of the id has updatedAt
\* and lastAuthor refreshed and from and to joined to its participants.
ThreadIdPrecedence ==
  [][\A id \in ThreadIds :
       LET idx == indexOfThread(threads, id) IN
       (clock' # clock /\ Truthy(id) /\ idx > 0) =>
       \A from \in Sessions, to \in Recipients, path \in ApiPaths :
       CreateOrUpdateThread(from, to, "sync", path, id)
       => /\ Len(threads') = Len(threads)
          /\ \A i \in 1..Len(threads) : i # idx => threads'[i] = threads[i]
          /\ threads'[idx].id = id
          /\ threads'[idx].updatedAt = DateNow(clock)
          /\ threads'[idx].lastAuthor = from
          /\ IsPrefix(threads[idx].participants, threads'[idx].participants)
          /\ Range(threads'[idx].participants) =
               Range(threads[idx].participants) \cup {from, to}
          /\ threads'[idx].filePath = threads[idx].filePath
          /\ threads'[idx].createdAt = threads[idx].createdAt]_vars

\* Thread t1 was refreshed by a third session after another thread had
\* been started on the file .inbox/a.md, which was left as it was started.
ThreadIdPrecedenceWitness ==
  \E i, j \in 1..Len(threads) :
    /\ threads[i].id = "t1"
    /\ threads[j].id # "t1"
    /\ threads[j].filePath = <<".inbox/", "a.md">>
    /\ threads[j].updatedAt = threads[j].createdAt
    /\ threads[i].updatedAt > threads[j].createdAt
    /\ threads[i].updatedAt > threads[i].createdAt
    /\ Len(threads[i].participants) = 3

\* C13: the write hook's trackExternalThread, given the id of a tracked
\* thread, resolves to that thread and merges the participants into it
\* whatever the file; no tracked thread is ever replaced by a fresh record.
\* The code looks the thread up by file only: this formula is violated.
TrackByIdFirst ==
  [][clock' # clock =>
     /\ \A i \in 1..Len(threads) :
          /\ threads'[i].id = threads[i].id
          /\ threads'[i].filePath = threads[i].filePath
          /\ threads'[i].createdAt = threads[i].createdAt
          /\ IsPrefix(threads[i].participants, threads'[i].participants)
     /\ \A id \in ThreadIds :
          LET idx == indexOfThread(threads, id) IN
          (Truthy(id) /\ idx > 0) =>
          \A s \in Sessions, path \in FilePaths, to \in Recipients :
            WriteHook(s, path, Mail(to, id))
            => /\ Len(threads') = Len(threads)
               /\ Range(threads'[idx].participants) =
                    Range(threads[idx].participants) \cup {s, to}
               /\ threads'[idx].lastAuthor = s]_vars

\* Thread t1 is tracked with a participant list that does not hold the
\* session that started it: the record was replaced.
TrackByIdFirstWitness ==
  \E i \in 1..Len(threads) :
    /\ threads[i].id = "t1"
    /\ threads[i].createdAt > 1
    /\ Len(threads) = 1

FailedCallsChangeNothing ==
  [][/\ inboxes' # inboxes =>
          \A s \in Sessions :
            /\ Resumes(s) =>
                 broadcast(s, getParentId(s, HostParent(s))).kind = "sent"
            /\ \A in \in BroadcastInputs :
                 BroadcastStart(s, in[1], in[2]) =>
                   broadcastStart(s, in[1], in[2]).kind = "await"
     /\ agentDescriptions' # agentDescriptions =>
          \A s \in Sessions : ~Announce(s, "")
     /\ \A s \in Sessions :
          (Resumes(s)
             /\ broadcast(s, getParentId(s, HostParent(s))).kind # "sent")
          => inboxes' = inboxes /\ msgCount' = msgCount]_vars

\* A described agent's call is about to return the unknown-recipient
\* error for its second target, the first being another agent.
FailedCallsWitness ==
  \E s \in Sessions :
    /\ Has(calls, s)
    /\ calls[s].pc = "getParentId"
    /\ calls[s].targetAliases = <<"agentB", "agentC">>
    /\ broadcast(s, getParentId(s, HostParent(s))).kind = "unknownRecipient"
    /\ resolveAlias("agentB", Null) \notin {"undefined", s}
    /\ Has(agentDescriptions, calls[s].alias)

\* C16: when b updates a tracked thread by its id, every other participant
\* a of the thread has one pending update on it afterwards, from b; when a
\* reads the file of a thread, a has no pending update on that thread
\* afterwards; and a gets a pending update on a thread it had none on only
\* from a call of createOrUpdateThread by another session, or from the end
\* of such a call.
ScenarioC ==
  [][/\ clock' # clock =>
          \A id \in ThreadIds :
            LET idx == indexOfThread(threads, id) IN
            (Truthy(id) /\ idx > 0) =>
            \A b \in Sessions, to \in Recipients, path \in ApiPaths :
              CreateOrUpdateThread(b, to, "sync", path, id) =>
                \A a \in Range(threads[idx].participants) \ {b} :
                  /\ Len(UpdatesOn(pendingUpdates', a, id)) = 1
                  /\ UpdatesOn(pendingUpdates', a, id)[1].from = b
                  /\ UpdatesOn(pendingUpdates', a, id)[1].filePath = threads[idx].filePath
     /\ (clock' = clock /\ pendingUpdates' # pendingUpdates) =>
          \A a \in Sessions, i \in 1..Len(threads) :
            ReadHook(a, threads[i].filePath) =>
              UpdatesOn(pendingUpdates', a, threads[i].id) = <<>>
     /\ pendingUpdates' # pendingUpdates =>
        \A a \in Sessions, i \in 1..Len(threads') :
          LET new == UpdatesOn(pendingUpdates', a, threads'[i].id) IN
          (UpdatesOn(pendingUpdates, a, threads'[i].id) = <<>> /\ new # <<>>) =>
             /\ new[1].from # a
             /\ \/ /\ new[1].timestamp = DateNow(clock)
                   /\ \E to \in Recipients, path \in ApiPaths, id \in ThreadIds :
                        CreateOrUpdateThread(new[1].from, to, "sync", path, id)
                \/ \E w \in writes :
                     w.from = new[1].from /\ WriteFileSettles(w, TRUE)]_vars

\* ses1 started a thread with ses2, ses2 wrote last, and ses1, who had
\* pending updates, has read them all.
ScenarioCWitness ==
  \E i \in 1..Len(threads) :
    /\ threads[i].participants = <<"ses1", "ses2">>
    /\ threads[i].lastAuthor = "ses2"
    /\ threads[i].updatedAt > threads[i].createdAt
    /\ Has(pendingUpdates, "ses1")
    /\ pendingUpdates["ses1"] = <<>>

\* The sessions whose recorded parent is p.
ChildrenOf(p) ==
  {x \in Sessions : Has(sessionParents, x) /\ sessionParents[x] = p}

\* C17: getSiblings(c) never holds c, is empty for a session with no
\* recorded parent, and otherwise holds exactly the other sessions whose
\* recorded parent is the parent of c.
SiblingsExact ==
  \A c \in Sessions :
    /\ c \notin Range(getSiblings(c))
    /\ ~Has(sessionParents, c) => getSiblings(c) = <<>>
    /\ Has(sessionParents, c) =>
         Range(getSiblings(c)) = ChildrenOf(sessionParents[c]) \ {c}

\* ses2 and ses3 were spawned by ses1 and list each other, and ses1, who
\* has no parent, has no siblings.
SiblingsExactWitness ==
  /\ getSiblings("ses2") = <<"ses3">>
  /\ getSiblings("ses3") = <<"ses2">>
  /\ getChildren("ses1") = <<"ses2", "ses3">>
  /\ getSiblings("ses1") = <<>>

\* C19: a call markMessagesFromSenderAsRead(r, s) leaves the queue of every
\* other recipient as it was, keeps the length and the order of r's queue,
\* sets read on the unread messages of r's queue whose `from` is the alias
\* of s and on no other, and changes no other field of any message.
MarkFromSenderFrame ==
  [][inboxes' # inboxes =>
       \A r, s \in Sessions :
         MarkMessagesFromSenderAsRead(r, s) =>
           /\ \A q \in DOMAIN inboxes \ {r} : inboxes'[q] = inboxes[q]
           /\ DOMAIN inboxes' = DOMAIN inboxes
           /\ Len(inboxes'[r]) = Len(inboxes[r])
           /\ \A i \in 1..Len(inboxes[r]) :
                LET m == inboxes[r][i] IN
                IF ~m.read /\ m.from = getAlias(sessionToAlias, s)
                THEN inboxes'[r][i] = [m EXCEPT !.read = TRUE]
                ELSE inboxes'[r][i] = m]_vars

\* A queue holds an unread message in front of a read message of another
\* sender: the injector marks a whole queue, so the later message was marked
\* by markMessagesFromSenderAsRead and the earlier one was left unread.
MarkFromSenderWitness ==
  \E r \in DOMAIN inboxes :
    \E i, j \in 1..Len(inboxes[r]) :
      /\ i < j
      /\ ~inboxes[r][i].read
      /\ inboxes[r][j].read
      /\ inboxes[r][i].from # inboxes[r][j].from

\* The pending updates of session a.
PendingOf(pend, a) == IF Has(pend, a) THEN pend[a] ELSE <<>>

\* C18: every pending update is unread and is in the notification of every
\* injector run for its recipient; a run of the injector leaves the pending
\* updates as they are; and a pending update of recipient a on a thread
\* goes away only in a step where a reads the file of the update or where
\* the state of a is cleaned up.
UpdatesPersist ==
  [][/\ \A a \in Sessions :
          /\ \A k \in 1..Len(PendingOf(pendingUpdates, a)) :
               LET u == pendingUpdates[a][k] IN
               /\ ~u.read
               /\ u.to = a
               /\ NotificationLine(u) \in Range(threadNotification(a, TRUE))
          /\ ThreadInjector(a) => pendingUpdates' = pendingUpdates
     /\ pendingUpdates' # pendingUpdates =>
          \A a \in Sessions :
            \A k \in 1..Len(PendingOf(pendingUpdates, a)) :
              LET u == pendingUpdates[a][k] IN
              UpdatesOn(pendingUpdates', a, u.threadId) = <<>> =>
                \/ CleanupSession(a)
                \/ \E path \in TrackedPaths :
                     /\ u.filePath = path \/ endsWith(path, u.filePath)
                     /\ ReadHook(a, path)]_vars

\* ses1 has read its updates and has none left, while ses2, who has not
\* read, still has an unread update that the injector shows.
UpdatesPersistWitness ==
  /\ Has(pendingUpdates, "ses1")
  /\ pendingUpdates["ses1"] = <<>>
  /\ Len(PendingOf(pendingUpdates, "ses2")) > 0
  /\ ~pendingUpdates["ses2"][1].read
  /\ Len(threadNotification("ses2", TRUE)) = Len(pendingUpdates["ses2"])
  /\ threadNotification("ses2", FALSE) = <<>>

\* C20: a call cleanupSession(id) leaves id without parent pointer and out
\* of the children of the parent it had, leaves the children listed under
\* id as they were, and leaves each of these children without parent and
\* with no siblings.
CleanupOrphans ==
  [][\A id \in Sessions :
       CleanupSession(id) =>
         /\ ~Has(sessionParents', id)
         /\ Has(sessionParents, id) =>
              ~SeqHas(siblingRegistry'[sessionParents[id]], id)
         /\ Has(siblingRegistry, id) =>
              /\ Has(siblingRegistry', id)
              /\ siblingRegistry'[id] = siblingRegistry[id]
         /\ \A c \in Range(getChildren(id)) :
              /\ ~Has(sessionParents', c)
              /\ getSiblings(c)' = <<>>]_vars

\* ses1, the parent of ses2 and ses3, has no parent pointer, as after
\* cleanupSession("ses1"), and its children still name it as their parent
\* and each other as siblings.
CleanupOrphansWitness ==
  /\ ~Has(sessionParents, "ses1")
  /\ getChildren("ses1") = <<"ses2", "ses3">>
  /\ Has(sessionParents, "ses2") /\ sessionParents["ses2"] = "ses1"
  /\ Has(sessionParents, "ses3") /\ sessionParents["ses3"] = "ses1"
  /\ getSiblings("ses2") = <<"ses3">>

\* The parents whose list of children holds c.
ListedUnder(c) ==
  {p \in DOMAIN siblingRegistry : SeqHas(siblingRegistry[p], c)}

\* C21: a session listed among the children of p is listed under no other
\* parent and has p as its recorded parent, a session with a recorded
\* parent is listed under it, and a task hook for an edge that is already
\* recorded changes nothing.
OneParentPerChild ==
  [][/\ \A c \in Sessions :
          /\ \A p \in ListedUnder(c) :
               /\ ListedUnder(c) = {p}
               /\ Has(sessionParents, c) /\ sessionParents[c] = p
          /\ Has(sessionParents, c) => sessionParents[c] \in ListedUnder(c)
     /\ \A p, c \in Sessions :
          (Has(sessionParents, c) /\ sessionParents[c] = p /\ TaskHook(p, c)) =>
             /\ sessionParents' = sessionParents
             /\ siblingRegistry' = siblingRegistry]_vars

\* ses1 was registered under ses2 and then under ses3: its recorded parent
\* is ses3, and it is listed among the children of both.
OneParentPerChildWitness ==
  /\ Has(sessionParents, "ses1") /\ sessionParents["ses1"] = "ses3"
  /\ getChildren("ses3") = <<"ses1">>
  /\ getChildren("ses2") = <<"ses1">>

\* No element occurs twice in q.
NoDuplicates(q) == \A i, j \in 1..Len(q) : q[i] = q[j] => i = j

\* C22: a call of createOrUpdateThread that resolves to a tracked thread,
\* by id or by file, leaves it with the participants it had together with
\* from and to, each once; and no step takes a participant off a tracked
\* thread.
ParticipantsUnion ==
  [][/\ clock' # clock =>
          \A from \in Sessions, to \in Recipients, path \in ApiPaths, id \in ThreadIds :
            LET r == resolveThread(path, id)
                idx == IF r.byId > 0 THEN r.byId ELSE r.byFile
            IN (idx > 0 /\ CreateOrUpdateThread(from, to, "sync", path, id)) =>
                 /\ Range(threads'[idx].participants) =
                      Range(threads[idx].participants) \cup {from, to}
                 /\ NoDuplicates(threads'[idx].participants)
     /\ \A i \in 1..Len(threads) :
          /\ i <= Len(threads')
          /\ threads'[i].id = threads[i].id
          /\ Range(threads[i].participants) \subseteq Range(threads'[i].participants)]_vars

\* A thread whose last author, who updated it by its file, is not among its
\* participants.
ParticipantsUnionWitness ==
  \E i \in 1..Len(threads) :
    /\ threads[i].updatedAt > threads[i].createdAt
    /\ threads[i].lastAuthor \notin Range(threads[i].participants)

\* C23: a call createOrUpdateThread(from, to, ...) that starts a thread
\* leaves it with a participant other than from, and every tracked thread
\* has a participant other than its first one, the session that started it.
OtherParticipant ==
  [][/\ clock' # clock =>
          \A from \in Sessions, to \in Recipients, path \in ApiPaths, id \in ThreadIds :
            (Len(threads') > Len(threads)
               /\ CreateOrUpdateThread(from, to, "sync", path, id)) =>
              \E p \in Range(threads'[Len(threads')].participants) : p # from
     /\ \A i \in 1..Len(threads') :
          \E p \in Range(threads'[i].participants) :
            p # threads'[i].participants[1]]_vars

\* A tracked thread that its only participant started and wrote last.
OtherParticipantWitness ==
  \E i \in 1..Len(threads) :
    /\ Range(threads[i].participants) = {threads[i].lastAuthor}
    /\ threads[i].updatedAt = threads[i].createdAt

\* C24: when the write hook or the edit hook of session s finds the file
\* tracked as a thread, the thread's updatedAt afterwards is later than
\* every time read before the hook ran and its lastAuthor is s.
RefreshOnReply ==
  [][clock' # clock =>
       \A s \in Sessions, path \in FilePaths, to \in Recipients, id \in ThreadIds :
         /\ (indexOfFile(threads, path) > 0 /\ WriteHook(s, path, Mail(to, id))) =>
              /\ threads'[indexOfFile(threads, path)].updatedAt > clock
              /\ threads'[indexOfFile(threads, path)].lastAuthor = s
         /\ (getThreadByPath(threads, path) > 0 /\ EditHook(s, path, Mail(to, id))) =>
              /\ threads'[getThreadByPath(threads, path)].updatedAt > clock
              /\ threads'[getThreadByPath(threads, path)].lastAuthor = s]_vars

\* A reply was recorded by the edit hook: a pending update on a thread is
\* later than the thread's updatedAt and comes from a session that is not
\* the thread's lastAuthor.
RefreshOnReplyWitness ==
  \E a \in DOMAIN pendingUpdates :
    \E k \in 1..Len(pendingUpdates[a]), i \in 1..Len(threads) :
      /\ pendingUpdates[a][k].threadId = threads[i].id
      /\ pendingUpdates[a][k].filePath = threads[i].filePath
      /\ pendingUpdates[a][k].timestamp > threads[i].updatedAt + 1
      /\ pendingUpdates[a][k].from # threads[i].lastAuthor

\* How many times x occurs in q.
Count(q, x) == Cardinality({i \in 1..Len(q) : q[i] = x})

\* C25: when a resumed broadcast of s resolves its targets and the parent
\* of s is among them, every queue grows by one unread message from s for
\* each time its session was resolved, whether client._client.post exists
\* or not; without post the call returns at once, with post it returns the
\* same recipients and message id once the post settles, resolved or
\* thrown, and that step changes no queue.
ParentNotifyOptional ==
  [][\A s \in Sessions :
       /\ \A found \in HostAnswers(s, FALSE), hasPost \in BOOLEAN :
            LET parentId == getParentId(s, found)
                out == broadcast(s, parentId)
            IN (BroadcastResume(s, found, hasPost)
                  /\ out.kind = "sent" /\ out.isTargetingParent) =>
                 /\ \A r \in DOMAIN inboxes :
                      LET n == Count(out.recipientSessions, r) IN
                      /\ Len(inboxes'[r]) = Len(inboxes[r]) + n
                      /\ SubSeq(inboxes'[r], 1, Len(inboxes[r])) = inboxes[r]
                      /\ \A k \in (Len(inboxes[r]) + 1)..Len(inboxes'[r]) :
                           /\ inboxes'[r][k].from = calls[s].alias
                           /\ inboxes'[r][k].to = r
                           /\ inboxes'[r][k].body = calls[s].message
                           /\ ~inboxes'[r][k].read
                 /\ Count(out.recipientSessions, parentId) > 0
                 /\ IF hasPost
                    THEN /\ Has(calls', s)
                         /\ calls'[s].pc = "notify_once"
                         /\ calls'[s].recipients = out.recipients
                         /\ calls'[s].messageId = out.messageId
                    ELSE ~Has(calls', s)
       /\ BroadcastNotified(s) =>
            /\ inboxes' = inboxes
            /\ ~Has(calls', s)]_vars

\* The broadcast of ses2 to its parent ses1 waits for the notify_once post
\* and its message already is in the queue of ses1.
ParentNotifyOptionalWitness ==
  /\ Has(calls, "ses2")
  /\ calls["ses2"].pc = "notify_once"
  /\ \E k \in 1..Len(inboxes["ses1"]) :
       /\ inboxes["ses1"][k].from = getAlias(sessionToAlias, "ses2")
       /\ inboxes["ses1"][k].id = calls["ses2"].messageId

\* C26: a call announce(message) of s with a message leaves s registered,
\* the description of s's alias equal to message and every other
\* description as it was, and returns one entry for every other registered
\* session, in the order of registration, with its alias and the
\* description it has, or none for an agent that has not announced.
AnnounceListsOthers ==
  [][\A s \in Sessions, message \in AnnounceInputs \ {""} :
       Announce(s, message) =>
         LET res == announce(s, message)
             others == SelectSeq(activeSessions', LAMBDA x : x # s)
         IN /\ SeqHas(activeSessions', s)
            /\ Has(sessionToAlias', s)
            /\ res.kind = "announced"
            /\ res.alias = sessionToAlias'[s]
            /\ Has(agentDescriptions', res.alias)
            /\ agentDescriptions'[res.alias] = message
            /\ \A a \in DOMAIN agentDescriptions' \ {res.alias} :
                 Has(agentDescriptions, a) /\ agentDescriptions'[a] = agentDescriptions[a]
            /\ Len(res.agents) = Len(others)
            /\ \A i \in 1..Len(others) :
                 /\ res.agents[i].alias = sessionToAlias'[others[i]]
                 /\ res.agents[i].description =
                      IF Has(agentDescriptions', res.agents[i].alias)
                      THEN agentDescriptions'[res.agents[i].alias]
                      ELSE "undefined"]_vars

\* Three agents are registered; agentA and agentB announced with different
\* descriptions and agentC has not announced: the list agentA gets back
\* names agentB with its description and agentC without one.
AnnounceListsOthersWitness ==
  /\ Len(activeSessions) = 3
  /\ Has(agentDescriptions, "agentA") /\ agentDescriptions["agentA"] = "tester"
  /\ Has(agentDescriptions, "agentB") /\ agentDescriptions["agentB"] = "reviewer"
  /\ ~Has(agentDescriptions, "agentC")
  /\ LET a == aliasToSession["agentA"] IN
     announce(a, "reviewer").agents =
       <<[alias |-> "agentB", description |-> "reviewer"],
         [alias |-> "agentC", description |-> "undefined"]>>

\* The names resolveAlias is asked for: the token parent, aliases, session
\* ids, and names that are neither.
ResolveInputs ==
  {"parent", "agentA", "agentB", "agentC", "agentD", "zed", "ALL", ""}
    \cup Sessions

\* The sessions registered under alias x.
SessionsOfAlias(x) ==
  {s \in Sessions : Has(sessionToAlias, s) /\ sessionToAlias[s] = x}

\* C27: resolveAlias(x, parentId) is parentId for the token parent when the
\* caller has a parent, the session registered under x when x is an alias,
\* x when x is the id of an active session, and absent for every other x,
\* the token parent without a parent among them.
ResolveAliasCases ==
  \A x \in ResolveInputs, parentId \in Sessions \cup {Null} :
    LET r == resolveAlias(x, parentId) IN
    IF x = "parent" /\ parentId # Null THEN r = parentId
    ELSE IF SessionsOfAlias(x) # {} THEN SessionsOfAlias(x) = {r}
    ELSE IF x \in Range(activeSessions) THEN r = x
    ELSE r = "undefined"

\* ses2, registered as agentB, sent a message to its parent ses1 by the
\* token: the alias and the raw id resolve to ses2, the token resolves to
\* the parent, and to nothing for a caller without parent.
ResolveAliasCasesWitness ==
  /\ Has(sessionToAlias, "ses2") /\ sessionToAlias["ses2"] = "agentB"
  /\ Has(sessionParentCache, "ses2") /\ sessionParentCache["ses2"] = "ses1"
  /\ Len(inboxes["ses1"]) > 0
  /\ resolveAlias("agentB", Null) = "ses2"
  /\ resolveAlias("ses2", Null) = "ses2"
  /\ resolveAlias("parent", sessionParentCache["ses2"]) = "ses1"
  /\ resolveAlias("parent", Null) = "undefined"
  /\ resolveAlias("ses3", Null) = "undefined"

\* C28: a run of the system prompt hook appends the IAM instructions to
\* the prompt of the host when the session has a parent, and leaves the
\* prompt as the host gave it when the session has none or the input names
\* no session.
ChildOnlyPrompt ==
  [][\A sessionId \in Sessions \cup {Null}, system \in HostPrompts :
       SystemTransform(sessionId, system) =>
         systemRun'.system =
           IF Truthy(sessionId) /\ HostParent(sessionId) # Null
           THEN Append(system, SYSTEM_PROMPT)
           ELSE system]_vars

\* The hook ran for ses1, which has no parent, and the prompt of the host
\* came out with the IAM instructions at its end.
ChildOnlyPromptWitness ==
  /\ systemRun.sessionID = "ses1"
  /\ HostParent("ses1") = Null
  /\ systemRun.system = <<"host", SYSTEM_PROMPT>>

\* The pending updates addressed to session a that are not read.
UnconsumedFor(a) ==
  SelectSeq(getPendingUpdates(pendingUpdates, DOMAIN pendingUpdates),
            LAMBDA u : u.to = a /\ ~u.read)

\* C29: a run of the injector of index.ts for a session without unread
\* messages changes nothing, the transcript and the queues among it; and
\* for a session no unread pending update is addressed to, the injector of
\* part_004 builds no notification and its run changes nothing.
NothingPendingNothingEmitted ==
  [][\A s \in Sessions :
       /\ (getUnreadMessages(s) = <<>> /\ Injector(s)) =>
            /\ transcript' = transcript
            /\ inboxes' = inboxes
            /\ pendingUpdates' = pendingUpdates
       /\ UnconsumedFor(s) = <<>> =>
            /\ threadNotification(s, TRUE) = <<>>
            /\ ThreadInjector(s) =>
                 /\ transcript' = transcript
                 /\ inboxes' = inboxes
                 /\ pendingUpdates' = pendingUpdates]_vars

\* ses1 has neither an unread message nor a pending update and nothing was
\* ever injected into its transcript, while ses2 has an unread message and
\* a pending update.
NothingPendingWitness ==
  /\ getUnreadMessages("ses1") = <<>>
  /\ UnconsumedFor("ses1") = <<>>
  /\ transcript["ses1"] = <<>>
  /\ threadNotification("ses1", TRUE) = <<>>
  /\ Len(getUnreadMessages("ses2")) > 0
  /\ Len(UnconsumedFor("ses2")) > 0

\* The places <<queue, index>> of the messages with id.
PlacesOf(id) ==
  {p \in (DOMAIN inboxes) \X (1..MaxMsgs) :
     p[2] <= Len(inboxes[p[1]]) /\ inboxes[p[1]][p[2]].id = id}

\* C30: when a broadcast of s resumes with the targets it took at its
\* start still being all other registered sessions, and it sends, the queue
\* of every other registered session gets one new unread message from s at
\* its end and every other queue stays as it was; and every message is in
\* one place only, in the queue of the session its `to` names.
BroadcastToAll ==
  [][/\ \A s \in Sessions, hasPost \in BOOLEAN :
          \A found \in HostAnswers(s, FALSE) :
            (BroadcastResume(s, found, hasPost)
               /\ calls[s].targetAliases =
                    getKnownAgents(activeSessions, sessionToAlias, s)
               /\ broadcast(s, getParentId(s, found)).kind = "sent") =>
              \A r \in DOMAIN inboxes :
                IF r # s /\ r \in Range(activeSessions)
                THEN /\ Len(inboxes'[r]) = Len(inboxes[r]) + 1
                     /\ SubSeq(inboxes'[r], 1, Len(inboxes[r])) = inboxes[r]
                     /\ inboxes'[r][Len(inboxes'[r])].from = calls[s].alias
                     /\ inboxes'[r][Len(inboxes'[r])].to = r
                     /\ inboxes'[r][Len(inboxes'[r])].body = calls[s].message
                     /\ ~inboxes'[r][Len(inboxes'[r])].read
                ELSE inboxes'[r] = inboxes[r]
     /\ \A r \in DOMAIN inboxes' :
          \A k \in 1..Len(inboxes'[r]) :
            /\ inboxes'[r][k].to = r
            /\ \A q \in DOMAIN inboxes' :
                 \A j \in 1..Len(inboxes'[q]) :
                   inboxes'[q][j].id = inboxes'[r][k].id => (q = r /\ j = k)]_vars

\* agentA, registered with two other agents, has broadcast to all: the
\* queues of the two others hold one message of agentA each, the messages
\* 1 and 2, and the queue of agentA holds none.
BroadcastToAllWitness ==
  /\ Len(activeSessions) = 3
  /\ calls = <<>>
  /\ LET a == aliasToSession["agentA"] IN
     /\ inboxes[a] = <<>>
     /\ \A r \in Sessions \ {a} :
          /\ Len(inboxes[r]) = 1
          /\ inboxes[r][1].from = "agentA"
          /\ inboxes[r][1].to = r
     /\ PlacesOf(1) \cup PlacesOf(2) = {<<r, 1>> : r \in Sessions \ {a}}

\* The number of messages in the queues of the sessions of S.
RECURSIVE Queued(_, _)
Queued(boxes, S) ==
  IF S = {} THEN 0
  ELSE LET r == CHOOSE x \in S : TRUE IN Len(boxes[r]) + Queued(boxes, S \ {r})

\* C31: with broadcasts of several senders suspended at one time, every
\* step leaves each queued message at its place with its sender, recipient
\* and body, the queues hold as many messages as were sent, each message
\* that was sent is at one place, and a resumed broadcast puts one message
\* of its sender at the end of a queue for each time it resolved the
\* session.
NoLostAppend ==
  [][/\ \A r \in DOMAIN inboxes :
          /\ Len(inboxes'[r]) >= Len(inboxes[r])
          /\ \A k \in 1..Len(inboxes[r]) :
               /\ inboxes'[r][k].id = inboxes[r][k].id
               /\ inboxes'[r][k].from = inboxes[r][k].from
               /\ inboxes'[r][k].to = inboxes[r][k].to
               /\ inboxes'[r][k].body = inboxes[r][k].body
     /\ Queued(inboxes', DOMAIN inboxes') = msgCount'
     /\ \A id \in 1..msgCount' :
          Cardinality({p \in (DOMAIN inboxes') \X (1..msgCount') :
                         /\ p[2] <= Len(inboxes'[p[1]])
                         /\ inboxes'[p[1]][p[2]].id = id}) = 1
     /\ \A s \in Sessions, hasPost \in BOOLEAN :
          \A found \in HostAnswers(s, FALSE) :
            BroadcastResume(s, found, hasPost) =>
              LET out == broadcast(s, getParentId(s, found)) IN
              \A r \in DOMAIN inboxes :
                /\ Len(inboxes'[r]) =
                     Len(inboxes[r]) + Count(out.recipientSessions, r)
                /\ \A k \in (Len(inboxes[r]) + 1)..Len(inboxes'[r]) :
                     /\ inboxes'[r][k].from = calls[s].alias
                     /\ inboxes'[r][k].to = r
                     /\ inboxes'[r][k].body = calls[s].message]_vars

\* The broadcasts of ses2 and of ses3 to their parent are both suspended
\* at the notification of the parent, and the queue of ses1 holds the
\* message of each.
NoLostAppendWitness ==
  /\ Has(calls, "ses2") /\ calls["ses2"].pc = "notify_once"
  /\ Has(calls, "ses3") /\ calls["ses3"].pc = "notify_once"
  /\ Len(inboxes["ses1"]) = 2
  /\ {inboxes["ses1"][1].from, inboxes["ses1"][2].from} =
       {sessionToAlias["ses2"], sessionToAlias["ses3"]}

\* Path q is path p or what is left of p without some of its first pieces.
IsSuffixOf(q, p) ==
  \E k \in 0..Len(p) : q = [i \in 1..(Len(p) - k) |-> p[k + i]]

\* The j-th index, in rising order, of the set of indices K.
Nth(K, j) == CHOOSE k \in K : Cardinality({i \in K : i <= k}) = j

\* C32: a read of path p by session s leaves the thread records, the
\* sessions that have a list of pending updates and the lists of the other
\* sessions as they were, and leaves s, in their order, the updates whose
\* filePath is neither p nor a suffix of p.
MarkThreadReadFrame ==
  [][pendingUpdates' # pendingUpdates =>
       \A s \in Sessions, p \in FilePaths :
         ReadHook(s, p) =>
           /\ threads' = threads
           /\ DOMAIN pendingUpdates' = DOMAIN pendingUpdates
           /\ \A q \in DOMAIN pendingUpdates \ {s} :
                pendingUpdates'[q] = pendingUpdates[q]
           /\ LET old == pendingUpdates[s]
                  new == pendingUpdates'[s]
                  keep == {k \in 1..Len(old) : ~IsSuffixOf(old[k].filePath, p)}
              IN /\ Len(new) = Cardinality(keep)
                 /\ \A j \in 1..Len(new) : new[j] = old[Nth(keep, j)]]_vars

\* ses3 replied on a thread of ses1 and ses2; ses1 has read the file and
\* has no update left, and the update of ses2 still is pending.
MarkThreadReadWitness ==
  /\ Has(pendingUpdates, "ses1") /\ pendingUpdates["ses1"] = <<>>
  /\ Has(pendingUpdates, "ses2")
  /\ \E k \in 1..Len(pendingUpdates["ses2"]), i \in 1..Len(threads) :
       /\ pendingUpdates["ses2"][k].from = "ses3"
       /\ pendingUpdates["ses2"][k].threadId = threads[i].id
       /\ threads[i].participants = <<"ses1", "ses2">>

\* Message id is in the queue of r and unread.
UnreadIn(r, id) ==
  \E i \in 1..Len(inboxes[r]) : inboxes[r][i].id = id /\ ~inboxes[r][i].read

\* Message id is read in the queue of r and is in one batch the injector
\* pushed to the transcript of r.
SurfacedIn(r, id) ==
  /\ \E i \in 1..Len(inboxes[r]) : inboxes[r][i].id = id /\ inboxes[r][i].read
  /\ \E k \in 1..Len(transcript[r]) : \E i \in 1..Len(transcript[r][k]) :
       transcript[r][k][i].messageId = id

\* C33: a message queued for r stays in r's queue, unread and as sent,
\* over every step that is not a run of r's injector; a run of r's injector
\* marks it read and pushes it in the batch of that run; and when the host
\* goes on running turns every unread message is surfaced in the end.
UnreadUntilSurfaced ==
  /\ [][\A r \in Sessions : \A i \in 1..Len(inboxes[r]) :
          ~inboxes[r][i].read =>
            /\ ~Injector(r) =>
                 /\ Len(inboxes'[r]) >= i
                 /\ inboxes'[r][i] = inboxes[r][i]
                 /\ transcript'[r] = transcript[r]
            /\ Injector(r) =>
                 /\ inboxes'[r][i] = [inboxes[r][i] EXCEPT !.read = TRUE]
                 /\ Len(transcript'[r]) = Len(transcript[r]) + 1
                 /\ \E n \in 1..Len(transcript'[r][Len(transcript'[r])]) :
                      transcript'[r][Len(transcript'[r])][n] =
                        [sessionID |-> r, from |-> inboxes[r][i].from,
                         body |-> inboxes[r][i].body,
                         messageId |-> inboxes[r][i].id]]_vars
  /\ \A r \in Sessions : \A id \in 1..MaxMsgs :
       UnreadIn(r, id) ~> SurfacedIn(r, id)

\* Two messages were queued for two recipients and each has been surfaced
\* to its recipient by a run of that recipient's injector.
UnreadUntilSurfacedWitness ==
  \E r1, r2 \in Sessions :
    /\ r1 # r2
    /\ SurfacedIn(r1, 1)
    /\ SurfacedIn(r2, 2)

\* The metadata declares `mail: true` and a recipient.
MailWithRecipient(fm) == fm.mail /\ fm.to # ""

\* C34: a write or edit hook on a file whose metadata lacks `mail: true` or
\* a recipient leaves the thread map and the pending updates as they are:
\* every step that changes one of them is a read hook or a write or edit
\* hook on a file whose metadata has both.
OnlyMailIsTracked ==
  [][(threads' # threads \/ pendingUpdates' # pendingUpdates) =>
       /\ \A s \in Sessions, path \in MetaPaths, fm \in Metas :
            ~MailWithRecipient(fm) =>
              ~WriteHook(s, path, fm) /\ ~EditHook(s, path, fm)
       /\ \/ \E s \in Sessions, path \in MetaPaths : ReadHook(s, path)
          \/ \E s \in Sessions, path \in MetaPaths, fm \in Metas :
               /\ MailWithRecipient(fm)
               /\ WriteHook(s, path, fm) \/ EditHook(s, path, fm)]_vars

\* One file is tracked as a thread with the participants its metadata
\* lists and an update of it is pending, and the other file is not tracked.
OnlyMailIsTrackedWitness ==
  /\ Len(threads) = 1
  /\ threads[1].participants = <<"ses2", "ses3">>
  /\ PendingOf(pendingUpdates, "ses3") # <<>>

\* C35: one broadcast call of s appends at most one message to the queue
\* of any one recipient.
OneCopyPerRecipient ==
  [][inboxes' # inboxes =>
       \A s \in Sessions :
         (\E found \in HostAnswers(s, FALSE), hasPost \in BOOLEAN :
            BroadcastResume(s, found, hasPost)) =>
           \A r \in Sessions : Len(inboxes'[r]) <= Len(inboxes[r]) + 1]_vars

\* The state one broadcast of ses2 to `agentA, parent` leaves: the parent
\* session ses1, registered as agentA, holds two unread messages of one
\* sender with consecutive ids.
OneCopyPerRecipientWitness ==
  /\ Len(inboxes["ses1"]) = 2
  /\ Has(sessionToAlias, "ses1")
  /\ inboxes["ses1"][1].from = inboxes["ses1"][2].from
  /\ inboxes["ses1"][2].id = inboxes["ses1"][1].id + 1
  /\ Len(transcript["ses1"]) = 0
  /\ calls = <<>>
  /\ Len(activeSessions) = 2

\* The aliases of the registered sessions other than s.
OthersKnown(active, s2a, s) ==
  {s2a[active[i]] : i \in {j \in 1..Len(active) : active[j] # s}}

\* C36: the recipients of a broadcast to all are the sessions registered
\* when the call starts: the call keeps the aliases of the other sessions
\* registered at its start as its targets and as its known agents, no step
\* of another session changes what it keeps, and when it resumes it queues
\* one message for each session whose alias it kept and none for a session
\* that registered while it was suspended; an unknown-recipient error it
\* returns lists the known agents it kept.
RecipientsFixedAtStart ==
  [][\A s \in Sessions :
       /\ (~Has(calls, s) /\ Has(calls', s)) =>
            /\ Range(calls'[s].knownAgents) =
                 OthersKnown(activeSessions', sessionToAlias', s)
            /\ \A to \in {<<>>, <<"ALL">>} :
                 BroadcastStart(s, to, calls'[s].message) =>
                   calls'[s].targetAliases = calls'[s].knownAgents
       /\ (Has(calls, s) /\ calls[s].pc = "getParentId") =>
            IF \E found \in HostAnswers(s, FALSE), hasPost \in BOOLEAN :
                 BroadcastResume(s, found, hasPost)
            THEN /\ calls[s].targetAliases = calls[s].knownAgents =>
                      \A r \in Sessions :
                        Len(inboxes'[r]) =
                          Len(inboxes[r]) +
                            (IF Has(sessionToAlias, r)
                                /\ sessionToAlias[r] \in Range(calls[s].knownAgents)
                             THEN 1 ELSE 0)
                 /\ broadcast(s, getParentId(s, HostParent(s))).kind = "unknownRecipient" =>
                      broadcast(s, getParentId(s, HostParent(s))).known =
                        calls[s].knownAgents
            ELSE Has(calls', s) /\ calls'[s] = calls[s]]_vars

\* ses1 is suspended in a broadcast to all that started when only agentB
\* was known, and ses3 has registered as agentC since.
RecipientsFixedAtStartWitness ==
  /\ Has(calls, "ses1")
  /\ calls["ses1"].pc = "getParentId"
  /\ calls["ses1"].knownAgents = <<"agentB">>
  /\ calls["ses1"].targetAliases = <<"agentB">>
  /\ Has(sessionToAlias, "ses3")
  /\ sessionToAlias["ses3"] = "agentC"

\* C37: every session that holds a message in its queue is a registered
\* session with an alias.
MailboxOwnerRegistered ==
  \A r \in Sessions :
    Len(inboxes[r]) > 0 =>
      /\ SeqHas(activeSessions, r)
      /\ Has(sessionToAlias, r)
      /\ Has(aliasToSession, sessionToAlias[r])

\* The parent ses1 holds a message of its child and was never registered,
\* and its injector has surfaced the message to it.
MailboxOwnerRegisteredWitness ==
  /\ ~SeqHas(activeSessions, "ses1")
  /\ ~Has(sessionToAlias, "ses1")
  /\ Len(inboxes["ses1"]) = 1
  /\ inboxes["ses1"][1].read
  /\ Len(transcript["ses1"]) = 1

\* Session s resumes its broadcast call from the parent lookup.
ResumesFromLookup(s) ==
  \E found \in HostAnswers(s, TRUE), hasPost \in BOOLEAN :
    BroadcastResume(s, found, hasPost)

OwnUpdatesOnly(s) ==
  LET own == SelectSeq(PendingOf(pendingUpdates, s), LAMBDA u : ~u.read)
      lines == threadNotification(s, TRUE)
  IN /\ Len(lines) = Len(own)
     /\ \A i \in 1..Len(own) :
          /\ own[i].to = s
          /\ lines[i] = [from |-> own[i].from, subject |-> own[i].subject,
                         filePath |-> own[i].filePath]

\* C39: a run of an injector for s surfaces only what is addressed to s
\* and changes nothing of another session: the notification of part_004
\* for s is made of s's own pending updates, and a run of the injector of
\* index.ts for s pushes only unread messages of s's queue, to s's
\* transcript, and leaves the queue, the read flags and the transcript of
\* every other session, and all pending updates and threads, as they are.
InjectorFrame ==
  /\ [](\A s \in Sessions : OwnUpdatesOnly(s))
  /\ [][\A s \in Sessions :
          /\ Injector(s) =>
               /\ \A r \in Sessions \ {s} :
                    inboxes'[r] = inboxes[r] /\ transcript'[r] = transcript[r]
               /\ pendingUpdates' = pendingUpdates
               /\ threads' = threads
               /\ \A k \in (Len(transcript[s]) + 1)..Len(transcript'[s]) :
                    \A i \in 1..Len(transcript'[s][k]) :
                      /\ transcript'[s][k][i].sessionID = s
                      /\ \E n \in 1..Len(inboxes[s]) :
                           /\ inboxes[s][n].to = s
                           /\ ~inboxes[s][n].read
                           /\ inboxes[s][n].id = transcript'[s][k][i].messageId
          /\ ThreadInjector(s) =>
               /\ inboxes' = inboxes
               /\ transcript' = transcript
               /\ pendingUpdates' = pendingUpdates]_vars

\* The injector of index.ts has run for ses2 and surfaced its message,
\* while the message of ses1 is still unread and the pending update of
\* ses2 is still there.
InjectorFrameWitness ==
  /\ Len(transcript["ses2"]) = 1
  /\ getUnreadMessages("ses2") = <<>>
  /\ Len(getUnreadMessages("ses1")) = 1
  /\ transcript["ses1"] = <<>>
  /\ Len(PendingOf(pendingUpdates, "ses2")) = 1
  /\ threadNotification("ses1", TRUE) = <<>>

\* C40: the session whose write or edit a hook handles is queued no
\* pending update by that hook.
WriterNotNotified ==
  [][pendingUpdates' # pendingUpdates =>
       \A s \in Sessions, path \in MetaPaths, fm \in Metas :
         (WriteHook(s, path, fm) \/ EditHook(s, path, fm)) =>
           PendingOf(pendingUpdates', s) = PendingOf(pendingUpdates, s)]_vars

\* ses2 has a pending update from ses1 on a thread of ses1 and ses2 whose
\* last author is ses1, as the write of ses2 itself leaves it when the
\* metadata says `from: ses1` and `to: ses2`.
WriterNotNotifiedWitness ==
  /\ Len(threads) = 1
  /\ threads[1].participants = <<"ses1", "ses2">>
  /\ threads[1].lastAuthor = "ses1"
  /\ Len(PendingOf(pendingUpdates, "ses2")) = 1
  /\ pendingUpdates["ses2"][1].from = "ses1"
  /\ ~Has(pendingUpdates, "ses1")

====
